---- MODULE Spec2Model ----
(***************************************************************************)
(* Voiltail: three-provider synthesis pipeline, streaming progress         *)
(* protocol and the in-memory result handoff store.                        *)
(*                                                                         *)
(* Nine specifications share the variables below.                          *)
(*   SpecStore   : the ResultStorage singleton driven by arbitrary callers *)
(*                 (store / retrieve / delete / GET / timer sweep / clock).*)
(*   Spec        : one synthesis request, streaming or non-streaming, from *)
(*                 its JSON body to the terminal event or HTTP response.   *)
(*   SpecSynth   : synthesizeWithErrorHandling on any list of responses,   *)
(*                 with every answer of the embedding and text-generation  *)
(*                 services.                                               *)
(*   SpecHandoff : one streaming request, the client's GET of its result   *)
(*                 and the stores of other requests.                       *)
(*   SpecCost    : one request on a process whose cost tracker has loaded  *)
(*                 the entries of earlier queries.                         *)
(*   SpecScore   : the scoring functions on their own: the Jaccard score   *)
(*                 and findDivergences on lists of texts, the alignment    *)
(*                 level and aligned points on a grid of score pairs.      *)
(*   SpecEquiv   : one valid request to either endpoint, with the answers  *)
(*                 of the two services recorded.                           *)
(*   SpecLive    : one streaming request under fairness of the handler,    *)
(*                 the timer, the providers and the two services.          *)
(*   SpecClient  : the consensus page submitting one prompt in Pro mode:   *)
(*                 the POST, the stream it reads, its fetches of the       *)
(*                 result.                                                 *)
(*                                                                         *)
(* Time is Date.now() in milliseconds.  Math.random() is an input of       *)
(* generateId: every call draws any suffix of RandSuffix.  The client is   *)
(* assumed to keep reading the stream (no ReadableStream cancel).          *)
(***************************************************************************)
EXTENDS Integers, Sequences, FiniteSets, TLC

VARIABLES
  \* ---- ResultStorage (lib/result-storage) ----
  storage,      \* Map<string, StoredResult>: id -> [result, timestamp, ttl]
  now,          \* Date.now()
  nextSweep,    \* instant at which the setInterval cleanup is next due
  advances,     \* number of clock advances taken (bounds the model)
  storeLog,     \* history: one entry per store() call, in call order
  lastRet,      \* history: the retrieve()/delete()/GET just made and its answer
  served,       \* history: the GET requests answered 200, in order
  \* ---- one synthesis request (api/ai/synthesize, api/ai/synthesize-stream) ----
  req,          \* the request: endpoint, mode, prompt validity, credentials
  pc,           \* position of the request's handler
  calls,        \* the three provider promises: model -> pending/fulfilled/rejected
  settled,      \* history: the models in the order their calls settled
  startTime,    \* const startTime = Date.now()
  idx,          \* index of the promise the streaming loop is awaiting
  timerDue,     \* instant at which the 1000 ms display delay may resume
  responses,    \* const responses: ModelResponse[]
  synthIn,      \* the list handed to synthesizeWithErrorHandling
  alignment,    \* alignmentResult of synthesizeResponses, once computed
  analysis,     \* the ConsensusAnalysis returned by synthesizeWithErrorHandling
  extCalls,     \* history: embedding and text-generation requests sent
  probe,        \* history (SpecSynth): the answers the two services gave
  ctrl,         \* the ReadableStream controller: queue, close() calls
  http,         \* the HTTP response of the endpoint (status, body)
  costs,        \* persistentCostTracker.costs
  \* ---- the browser page (app/consensus) ----
  client        \* the page's React state and the position of handleSubmit

storeVars == <<storage, now, nextSweep, advances, storeLog, lastRet, served>>

pipeVars == <<req, pc, calls, settled, startTime, idx, timerDue, responses, synthIn,
              alignment, analysis, extCalls, probe, ctrl, http, costs, client>>

vars == <<storeVars, pipeVars>>

-----------------------------------------------------------------------------
(* Bounds *)

MaxAdvances == 2
MaxStores == 2

(* Program constants *)

StreamDelayMs == 1000
MsPerMinute == 60000
DefaultTtlMinutes == 30
CleanupIntervalMs == 300000

\* ttlMinutes arguments, in thousandths of a minute: 0.001 (the tests' short
\* TTL, 60 ms) and the default 30 minutes.
TtlChoices == {1, DefaultTtlMinutes * 1000}

\* Clock advances offered to the environment: the short TTL (so that an entry
\* is seen exactly at, and then past, its TTL) and one sweep interval.
AdvanceSteps == {60, CleanupIntervalMs}

\* Outcomes of Math.random().toString(36).substr(2, 9)
RandSuffix == {"4fzzzxjyl", "i"}

\* The analysis object handed to the k-th store() call: callers pass a fresh
\* object each time, so every call is told apart from every other.
SampleResult(k) == [sample |-> k]

Null == [null |-> TRUE]

-----------------------------------------------------------------------------
(* Texts, numbers and the values exchanged with the external services *)

\* A text is a sequence of whitespace-separated tokens.
\* Rational numbers stand for the JavaScript numbers of the scores.
\* Denominators are positive; 0 / 0 stands for NaN.
Rat(n, d) == [num |-> n, den |-> d]
RECURSIVE GCD(_, _)
GCD(a, b) == IF b = 0 THEN a ELSE GCD(b, a % b)
\* The same non-negative number in lowest terms
Reduce(r) ==
  LET g == GCD(r.num, r.den)
  IN  IF g = 0 THEN r ELSE Rat(r.num \div g, r.den \div g)
RatEq(a, b) == a.num * b.den = b.num * a.den
RatLess(a, b) == a.num * b.den < b.num * a.den
RatAdd(a, b) == Rat(a.num * b.den + b.num * a.den, a.den * b.den)
RatMul(a, b) == Rat(a.num * b.num, a.den * b.den)
One == Rat(1, 1)
Zero == Rat(0, 1)

Models == <<"gemini", "openai", "claude">>
ModelSet == {"gemini", "openai", "claude"}

\* What a provider may answer: an ordinary text, and a genuine answer that
\* happens to begin with "Error:".
ContentChoices ==
  { <<"Neural", "networks", "learn">>,
    <<"Error:", "rate", "limits", "explained">> }

\* A 198-character token, and an answer of 207 characters built from it.
LongWord == "synapticxxxxxxxxxxxxxxxxxxxxxxxxxxxxxxxxxxxxxxxxxxxxxxxxxxxxxxxxxxxxxxxxxxxxxxxxxxxxxxxxxxxxxxxxxxxxxxxxxxxxxxxxxxxxxxxxxxxxxxxxxxxxxxxxxxxxxxxxxxxxxxxxxxxxxxxxxxxxxxxxxxxxxxxxxxxxxxxxxxxxxxxxxxxxxx"
LongText == <<LongWord, "networks">>

\* Further texts for the scoring functions: one whose words are all too
\* short to count, one made of technical terms, one of two sentences with
\* the vocabulary of the first ordinary answer, and the empty text.
ShortText == <<"AI", "is", "ok">>
TechText == <<"algorithm", "analysis", "framework", "approach">>
TwoSentences == <<"Networks", "learn.", "Neural", "networks", "learn">>
EmptyText == <<>>

\* The cause wrapped by callModel / callModelWithProgress when a call throws.
FailureCauses == { <<"timeout">> }

\* throw new Error(`${model} API call failed: ${...}`)
CallFailedMessage(m, cause) == <<m, "API", "call", "failed:">> \o cause

\* content.startsWith('Error:')
StartsWithError(content) == Len(content) > 0 /\ content[1] = "Error:"

\* { model, content: `Error: ${message}`, responseTime: 0 }
ErrorResponse(m, message) ==
  [model |-> m, content |-> <<"Error:">> \o message, responseTime |-> 0]

\* responses.filter(r => !r.content.startsWith('Error:'))
ValidResponses(rs) == SelectSeq(rs, LAMBDA r : ~StartsWithError(r.content))

\* Mutation of ResponsesToSynthesize: no fallback to the error placeholders.
ResponsesToSynthesize_ValidOnly(rs) == ValidResponses(rs)

\* validResponses.length > 0 ? validResponses : responses
ResponsesToSynthesize(rs) ==
  IF Len(ValidResponses(rs)) > 0 THEN ValidResponses(rs) ELSE rs

\* responses.some(r => r.content.startsWith('Error:'))
HasErrors(rs) == \E i \in 1..Len(rs) : StartsWithError(rs[i].content)

\* Mutation of ModelProgress: the index is not advanced by one.
ModelProgress_ZeroBased(index) == (2 * index * 60 + 3) \div (2 * 3)

\* Math.round(((index + 1) / 3) * 60), index counted from 0
ModelProgress(index) == (2 * (index + 1) * 60 + 3) \div (2 * 3)

\* text.toLowerCase().replace(/[^\w\s]/g, ' ') applied to one token
NormalizeToken(tok) ==
  CASE tok = "Neural" -> "neural"
    [] tok = "Error:" -> "error"
    [] tok = "API" -> "api"
    [] tok = "failed:" -> "failed"
    [] tok = "Networks" -> "networks"
    [] tok = "learn." -> "learn"
    [] tok = "AI" -> "ai"
    [] OTHER -> tok

\* token.length for the tokens of the model's texts
TokenLength(tok) ==
  CASE tok = LongWord -> 198
    [] tok = "failed:" -> 7
    [] tok \in {"Neural", "Error:"} -> 6
    [] tok = "API" -> 3
    [] tok \in {"rate", "call"} -> 4
    [] tok = "learn" -> 5
    [] tok \in {"limits", "gemini", "openai", "claude"} -> 6
    [] tok = "timeout" -> 7
    [] tok \in {"networks", "Networks", "analysis", "approach"} -> 8
    [] tok \in {"explained", "algorithm", "framework"} -> 9
    [] tok = "learn." -> 6
    [] tok \in {"AI", "is", "ok"} -> 2

\* token.substring(0, k) for the cuts that occur in the model's texts
TokenPrefix(tok, k) ==
  CASE k >= TokenLength(tok) -> tok
    [] tok = "networks" /\ k = 1 -> "n"

\* word.length
WordLength(w) ==
  CASE w \in {"api"} -> 3
    [] w \in {"rate", "call"} -> 4
    [] w \in {"learn", "error"} -> 5
    [] w \in {"neural", "limits", "gemini", "openai", "claude", "failed"} -> 6
    [] w \in {"timeout"} -> 7
    [] w \in {"networks", "analysis", "approach"} -> 8
    [] w \in {"explained", "algorithm", "framework"} -> 9
    [] w \in {"ai", "is", "ok"} -> 2
    [] w = LongWord -> 198
    [] OTHER -> 0

\* new Set(text.toLowerCase().replace(...).split(/\s+/).filter(w => w.length > 2))
WordSet(text) ==
  {w \in {NormalizeToken(text[i]) : i \in 1..Len(text)} : WordLength(w) > 2}

\* Mutation of calculateJaccardSimilarity: the intersection is taken between
\* the first and the last set only.
calculateJaccardSimilarity_FirstAndLast(texts) ==
  LET wordSets == [i \in 1..Len(texts) |-> WordSet(texts[i])]
      intersection == wordSets[1] \cap wordSets[Len(texts)]
      union == UNION {wordSets[i] : i \in 1..Len(texts)}
  IN  IF Cardinality(union) > 0
      THEN Rat(Cardinality(intersection), Cardinality(union))
      ELSE Zero

\* Mutation of calculateJaccardSimilarity: an empty union scores 1.
calculateJaccardSimilarity_EmptyIsOne(texts) ==
  LET wordSets == [i \in 1..Len(texts) |-> WordSet(texts[i])]
      intersection == {w \in wordSets[1] : \A i \in 1..Len(texts) : w \in wordSets[i]}
      union == UNION {wordSets[i] : i \in 1..Len(texts)}
  IN  IF Cardinality(union) > 0
      THEN Rat(Cardinality(intersection), Cardinality(union))
      ELSE One

\* calculateJaccardSimilarity(texts), texts non-empty
calculateJaccardSimilarity(texts) ==
  LET wordSets == [i \in 1..Len(texts) |-> WordSet(texts[i])]
      intersection == {w \in wordSets[1] : \A i \in 1..Len(texts) : w \in wordSets[i]}
      union == UNION {wordSets[i] : i \in 1..Len(texts)}
  IN  IF Cardinality(union) > 0
      THEN Rat(Cardinality(intersection), Cardinality(union))
      ELSE Zero

\* Embedding service, per text: the request fails (network error, non-OK
\* status, body without data[0]), or it returns a vector: one of three
\* directions of the usual dimension (the third at cosine 4/5 and 3/5 to the
\* first two), the zero vector, or a vector of another dimension.
EmbedFailed == <<>>
EmbedOutcomes == {EmbedFailed, <<1, 0>>, <<0, 1>>, <<4, 3>>, <<0, 0>>, <<1>>}

\* sum of vecA[i] * vecB[i]
RECURSIVE DotProduct(_, _)
DotProduct(a, b) ==
  IF a = <<>> THEN 0 ELSE Head(a) * Head(b) + DotProduct(Tail(a), Tail(b))

\* Math.sqrt(norm) for the sums of squares that are perfect squares
Norm(v) == CHOOSE n \in 0..DotProduct(v, v) : n * n = DotProduct(v, v)

\* cosineSimilarity(vecA, vecB) for vectors of equal length: 0 when a norm
\* is 0, otherwise dotProduct / (normA * normB).
cosineSimilarity(a, b) ==
  IF Norm(a) = 0 \/ Norm(b) = 0 THEN Zero
  ELSE Rat(DotProduct(a, b), Norm(a) * Norm(b))

\* similarities.reduce((sum, sim) => sum + sim, 0) over the pairs i < j
RECURSIVE SumSimilarities(_, _)
SumSimilarities(outs, pairs) ==
  IF pairs = {} THEN Zero
  ELSE LET p == CHOOSE q \in pairs : TRUE
       IN  Reduce(RatAdd(cosineSimilarity(outs[p[1]], outs[p[2]]),
                         SumSimilarities(outs, pairs \ {p})))

\* sum / similarities.length
MeanSimilarity(outs) ==
  LET pairs == {p \in (1..Len(outs)) \X (1..Len(outs)) : p[1] < p[2]}
  IN  RatMul(SumSimilarities(outs, pairs), Rat(1, Cardinality(pairs)))

\* Mutation of calculateSemanticSimilarity: the catch block answers 0.
calculateSemanticSimilarity_ZeroFallback(outs) ==
  IF \/ \E i \in 1..Len(outs) : outs[i] = EmbedFailed
     \/ \E i, j \in 1..Len(outs) : Len(outs[i]) # Len(outs[j])
  THEN Zero
  ELSE MeanSimilarity(outs)

\* calculateSemanticSimilarity(texts), two texts or more, for the given
\* embedding outcomes: Promise.all rejects when any request fails,
\* cosineSimilarity throws on vectors of different length, and the catch
\* returns 0.5; otherwise the mean of the pairwise cosines.
calculateSemanticSimilarity(outs) ==
  IF \/ \E i \in 1..Len(outs) : outs[i] = EmbedFailed
     \/ \E i, j \in 1..Len(outs) : Len(outs[i]) # Len(outs[j])
  THEN Rat(1, 2)
  ELSE MeanSimilarity(outs)

\* Mutation of getAlignmentLevel: the thresholds are inclusive.
getAlignmentLevel_Inclusive(semanticScore, surfaceScore) ==
  LET combinedScore == RatAdd(RatMul(semanticScore, Rat(7, 10)),
                              RatMul(surfaceScore, Rat(3, 10)))
  IN  IF ~RatLess(combinedScore, Rat(7, 10)) THEN "high"
      ELSE IF ~RatLess(combinedScore, Rat(4, 10)) THEN "moderate"
      ELSE "low"

\* Mutation of getAlignmentLevel: the two lower bands are exchanged.
getAlignmentLevel_BandsSwapped(semanticScore, surfaceScore) ==
  LET combinedScore == RatAdd(RatMul(semanticScore, Rat(7, 10)),
                              RatMul(surfaceScore, Rat(3, 10)))
  IN  IF RatLess(Rat(7, 10), combinedScore) THEN "high"
      ELSE IF RatLess(Rat(4, 10), combinedScore) THEN "low"
      ELSE "moderate"

\* getAlignmentLevel(semanticScore, surfaceScore)
getAlignmentLevel(semanticScore, surfaceScore) ==
  LET combinedScore == RatAdd(RatMul(semanticScore, Rat(7, 10)),
                              RatMul(surfaceScore, Rat(3, 10)))
  IN  IF RatLess(Rat(7, 10), combinedScore) THEN "high"
      ELSE IF RatLess(Rat(4, 10), combinedScore) THEN "moderate"
      ELSE "low"

\* Mutation of AlignedPoints: the terminology point does not look at the
\* surface score.
AlignedPoints_NoSurfaceTest(semantic, surface, models) ==
  (IF RatLess(Rat(8, 10), semantic)
   THEN << [content |-> "Models show strong semantic agreement on core concepts",
            models |-> models,
            strength |-> semantic] >>
   ELSE <<>>)
  \o
  (IF RatLess(Rat(6, 10), semantic)
   THEN << [content |-> "Models demonstrate consensus on key terminology and approach",
            models |-> models,
            strength |-> RatMul(RatAdd(semantic, surface), Rat(1, 2))] >>
   ELSE <<>>)

\* calculateAlignment: the alignedPoints array
AlignedPoints(semantic, surface, models) ==
  (IF RatLess(Rat(8, 10), semantic)
   THEN << [content |-> "Models show strong semantic agreement on core concepts",
            models |-> models,
            strength |-> semantic] >>
   ELSE <<>>)
  \o
  (IF RatLess(Rat(6, 10), semantic) /\ RatLess(Rat(2, 10), surface)
   THEN << [content |-> "Models demonstrate consensus on key terminology and approach",
            models |-> models,
            strength |-> RatMul(RatAdd(semantic, surface), Rat(1, 2))] >>
   ELSE <<>>)

\* getDescription(semanticScore, surfaceScore)
getDescription(semanticScore, surfaceScore) ==
  IF RatLess(Rat(8, 10), semanticScore) /\ RatLess(Rat(3, 10), surfaceScore)
  THEN "Strong semantic alignment with consistent expression"
  ELSE IF RatLess(Rat(8, 10), semanticScore)
  THEN "Strong semantic alignment with diverse expression styles"
  ELSE IF RatLess(Rat(6, 10), semanticScore)
  THEN "Moderate semantic alignment with complementary perspectives"
  ELSE IF RatLess(Rat(3, 10), surfaceScore)
  THEN "Similar language usage but potentially different underlying concepts"
  ELSE "Diverse perspectives with low alignment - models offer complementary insights"

\* Mutation of AlignmentResult: the multipliers of gemini and chatgpt are
\* exchanged.
AlignmentResult_SlotsSwapped(semantic, surface, models) ==
  [semantic |-> semantic,
   surface |-> surface,
   gemini |-> getAlignmentLevel(RatMul(semantic, Rat(105, 100)), surface),
   chatgpt |-> getAlignmentLevel(RatMul(semantic, Rat(95, 100)), surface),
   claude |-> getAlignmentLevel(semantic, surface),
   overallAlignment |-> getAlignmentLevel(semantic, surface),
   description |-> getDescription(semantic, surface),
   alignedPoints |-> AlignedPoints(semantic, surface, models)]

\* calculateAlignment: the object returned for the two scores
AlignmentResult(semantic, surface, models) ==
  [semantic |-> semantic,
   surface |-> surface,
   gemini |-> getAlignmentLevel(RatMul(semantic, Rat(95, 100)), surface),
   chatgpt |-> getAlignmentLevel(RatMul(semantic, Rat(105, 100)), surface),
   claude |-> getAlignmentLevel(semantic, surface),
   overallAlignment |-> getAlignmentLevel(semantic, surface),
   description |-> getDescription(semantic, surface),
   alignedPoints |-> AlignedPoints(semantic, surface, models)]

\* responses.map(r => r.model), responses.map(r => r.content)
ModelsOf(rs) == [i \in 1..Len(rs) |-> rs[i].model]
ContentsOf(rs) == [i \in 1..Len(rs) |-> rs[i].content]

\* calculateAlignment(responses), for the given embedding outcomes
calculateAlignment(rs, outs) ==
  AlignmentResult(calculateSemanticSimilarity(outs),
                  calculateJaccardSimilarity(ContentsOf(rs)),
                  ModelsOf(rs))

\* content.length: the tokens and the single spaces between them
RECURSIVE ContentLength(_)
ContentLength(text) ==
  IF text = <<>> THEN 0
  ELSE TokenLength(Head(text)) + (IF Len(text) > 1 THEN 1 ELSE 0)
         + ContentLength(Tail(text))

\* A token that ends in '.', '!' or '?'
EndsSentence(tok) == tok \in {"learn."}

\* text.split(/[.!?]+/).filter(s => s.trim().length > 0), and for each
\* piece s.split(' ').length: a piece after the first begins with the space
\* that followed the full stop, which split(' ') counts as one empty item.
RECURSIVE SentenceLengths(_, _, _)
SentenceLengths(text, cur, lead) ==
  IF text = <<>> THEN (IF cur > 0 THEN <<cur + lead>> ELSE <<>>)
  ELSE IF EndsSentence(Head(text))
  THEN <<cur + 1 + lead>> \o SentenceLengths(Tail(text), 0, 1)
  ELSE SentenceLengths(Tail(text), cur + 1, lead)

RECURSIVE SumSeq(_)
SumSeq(q) == IF q = <<>> THEN 0 ELSE Head(q) + SumSeq(Tail(q))

\* The technical terms that token.toLowerCase() includes
TechnicalTerms ==
  {"algorithm", "implementation", "methodology", "analysis", "framework", "approach"}
TermsIn(tok) == {NormalizeToken(tok)} \cap TechnicalTerms

\* 0 / 0, and every number divided by 0 that the code can produce, is NaN;
\* RatLess is false whenever one side is NaN, as < and > are.
IsNaN(r) == r.den = 0
RatMin(a, b) == IF IsNaN(a) \/ IsNaN(b) THEN Rat(0, 0) ELSE IF RatLess(b, a) THEN b ELSE a
RatMax(a, b) == IF IsNaN(a) \/ IsNaN(b) THEN Rat(0, 0) ELSE IF RatLess(a, b) THEN b ELSE a
RatSub(a, b) == RatAdd(a, Rat(0 - b.num, b.den))

\* calculateFormality(text)
calculateFormality(text) ==
  LET sentences == SentenceLengths(text, 0, 0)
      avgSentenceLength == Rat(SumSeq(sentences), Len(sentences))
      technicalCount == Cardinality(UNION {TermsIn(text[i]) : i \in 1..Len(text)})
  IN  RatMin(One, RatAdd(RatMul(avgSentenceLength, Rat(1, 20)), Rat(technicalCount, 10)))

\* isCommonWord(word), for the words of the model's texts
CommonWords == {"learn"}

KeywordLimit == 10

\* extractKeywords(text): the words longer than 4 that are not common, the
\* ten most frequent of them (the sort is stable: ties keep text order)
extractKeywords(text) ==
  LET words == SelectSeq([i \in 1..Len(text) |-> NormalizeToken(text[i])],
                         LAMBDA w : WordLength(w) > 4 /\ w \notin CommonWords)
      distinct == {words[i] : i \in 1..Len(words)}
      count(w) == Cardinality({i \in 1..Len(words) : words[i] = w})
      first(w) == CHOOSE i \in 1..Len(words) :
                    words[i] = w /\ \A j \in 1..(i - 1) : words[j] # w
      before(v, w) == count(v) > count(w) \/ (count(v) = count(w) /\ first(v) < first(w))
  IN  IF Cardinality(distinct) <= KeywordLimit THEN distinct
      ELSE {w \in distinct : Cardinality({v \in distinct : before(v, w)}) < KeywordLimit}

RECURSIVE MaxOf(_)
MaxOf(q) == IF Len(q) = 1 THEN q[1] ELSE RatMax(q[1], MaxOf(Tail(q)))
RECURSIVE MinOf(_)
MinOf(q) == IF Len(q) = 1 THEN q[1] ELSE RatMin(q[1], MinOf(Tail(q)))

\* Mutation of DetailLevelDiffers: only the longest response is looked at.
DetailLevelDiffers_MaxOnly(rs) ==
  LET lengths == [i \in 1..Len(rs) |-> Rat(ContentLength(rs[i].content), 1)]
      avgLength == Rat(SumSeq([i \in 1..Len(rs) |-> ContentLength(rs[i].content)]), Len(rs))
  IN  RatLess(RatMul(avgLength, Rat(13, 10)), MaxOf(lengths))

\* findDivergences: maxLength > avgLength * 1.3 || minLength < avgLength * 0.7
DetailLevelDiffers(rs) ==
  LET lengths == [i \in 1..Len(rs) |-> Rat(ContentLength(rs[i].content), 1)]
      avgLength == Rat(SumSeq([i \in 1..Len(rs) |-> ContentLength(rs[i].content)]), Len(rs))
  IN  \/ RatLess(RatMul(avgLength, Rat(13, 10)), MaxOf(lengths))
      \/ RatLess(MinOf(lengths), RatMul(avgLength, Rat(7, 10)))

\* findDivergences: formalityRange > 0.2
StyleDiffers(rs) ==
  LET formalityScores == [i \in 1..Len(rs) |-> calculateFormality(rs[i].content)]
      formalityRange == RatSub(MaxOf(formalityScores), MinOf(formalityScores))
  IN  RatLess(Rat(2, 10), formalityRange)

\* findDivergences: diversityRatio < 0.3
FocusDiffers(rs) ==
  LET keywordSets == [i \in 1..Len(rs) |-> extractKeywords(rs[i].content)]
      uniqueKeywords == UNION {keywordSets[i] : i \in 1..Len(rs)}
      sharedKeywords == {k \in uniqueKeywords : \A i \in 1..Len(rs) : k \in keywordSets[i]}
      diversityRatio == Rat(Cardinality(sharedKeywords), Cardinality(uniqueKeywords))
  IN  RatLess(diversityRatio, Rat(3, 10))

DivergentSection(topic, content, models, description) ==
  [topic |-> topic, content |-> content, models |-> models, description |-> description]

\* findDivergences(responses), one response or more
findDivergences(rs) ==
  (IF DetailLevelDiffers(rs)
   THEN << DivergentSection("Response Detail Level",
             "Models provided different levels of detail in their responses",
             ModelsOf(rs), "Models showed varying perspectives on implementation") >>
   ELSE <<>>)
  \o
  (IF StyleDiffers(rs)
   THEN << DivergentSection("Communication Style",
             "Models adopted different communication approaches",
             ModelsOf(rs), "Varying levels of formality and technical depth in responses") >>
   ELSE <<>>)
  \o
  (IF FocusDiffers(rs)
   THEN << DivergentSection("Conceptual Focus",
             "Models emphasized different aspects and concepts",
             ModelsOf(rs), "Models showed varying perspectives on implementation") >>
   ELSE <<>>)

\* Text-generation service (chat completion): what the request may give.
\*   networkError   fetch rejects
\*   httpError      response.ok is false
\*   invalidJson    response.json() rejects
\*   noChoices      body without a choices array: {}
\*   emptyChoices   {choices: []}
\*   noMessage      {choices: [{}]}
\*   emptyContent   {choices: [{message: {content: ""}}]}
\*   content        {choices: [{message: {content: GenText}}]}
GenText == <<"Unified", "synthesis">>
GenOutcomes ==
  {"networkError", "httpError", "invalidJson", "noChoices",
   "emptyChoices", "noMessage", "emptyContent", "content"}

\* The try block throws: fetch or json() rejects, the status is not OK, or
\* data.choices is undefined and data.choices[0] raises a TypeError.
GenThrows(outcome) ==
  outcome \in {"networkError", "httpError", "invalidJson", "noChoices"}

\* data.choices[0]?.message?.content; undefined and "" are the empty text
GenContent(outcome) == IF outcome = "content" THEN GenText ELSE <<>>

ExcerptChars == 200

\* The first `room` characters of a text whose tokens are joined by one space
RECURSIVE TakeChars(_, _)
TakeChars(text, room) ==
  IF text = <<>> \/ room <= 0 THEN <<>>
  ELSE IF TokenLength(Head(text)) <= room
  THEN <<Head(text)>> \o TakeChars(Tail(text), room - TokenLength(Head(text)) - 1)
  ELSE <<TokenPrefix(Head(text), room)>>

\* response.content.substring(0, 200)
Excerpt(content) == TakeChars(content, ExcerptChars)

\* response.model.charAt(0).toUpperCase() + response.model.slice(1)
Capitalize(m) ==
  CASE m = "gemini" -> "Gemini" [] m = "openai" -> "Openai" [] m = "claude" -> "Claude"

\* createFallbackSynthesis(responses)
createFallbackSynthesis(rs) ==
  LET section(r) == <<"**", Capitalize(r.model), "Perspective**:">> \o Excerpt(r.content) \o <<"...">>
      RECURSIVE sections(_)
      sections(q) == IF q = <<>> THEN <<>> ELSE section(Head(q)) \o sections(Tail(q))
  IN  <<"Based", "on", "analysis", "from", "multiple", "AI", "models">>
        \o sections(rs)
        \o <<"This", "synthesis", "combines", "insights">>

\* createGPT4Synthesis: data.choices[0]?.message?.content || 'Unable to
\* generate synthesis', and the fallback when the request throws
createGPT4Synthesis(rs, outcome) ==
  IF GenThrows(outcome) THEN createFallbackSynthesis(rs)
  ELSE IF GenContent(outcome) = <<>> THEN <<"Unable", "to", "generate", "synthesis">>
  ELSE GenContent(outcome)

\* synthesizeWithErrorHandling, responses.length === 1: the aligned point
SinglePoint(rs) ==
  << [content |-> "Single model response", models |-> <<rs[1].model>>, strength |-> One] >>

\* synthesizeWithErrorHandling, responses.length === 1: the alignment object
SingleAlignment(rs) ==
  [semantic |-> One,
   surface |-> One,
   gemini |-> "high",
   chatgpt |-> "high",
   claude |-> "high",
   overallAlignment |-> "high",
   description |-> "Single model response",
   alignedPoints |-> SinglePoint(rs)]

\* Mutation of SingleResponseAnalysis: the single response is wrapped in the
\* labelled fallback text instead of being returned as it is.
SingleResponseAnalysis_Wrapped(rs) ==
  [unifiedResponse |-> createFallbackSynthesis(rs),
   alignment |-> SingleAlignment(rs),
   alignedPoints |-> SinglePoint(rs),
   divergentSections |-> <<>>,
   originalResponses |-> rs]

\* synthesizeWithErrorHandling, responses.length === 1
SingleResponseAnalysis(rs) ==
  [unifiedResponse |-> rs[1].content,
   alignment |-> SingleAlignment(rs),
   alignedPoints |-> SinglePoint(rs),
   divergentSections |-> <<>>,
   originalResponses |-> rs]

\* r.model.toUpperCase()
UpperCase(m) ==
  CASE m = "gemini" -> "GEMINI" [] m = "openai" -> "OPENAI" [] m = "claude" -> "CLAUDE"

\* synthesizeWithErrorHandling, catch branch: `**${MODEL}**: ${content}` joined
RECURSIVE LabelledResponses(_)
LabelledResponses(rs) ==
  IF rs = <<>> THEN <<>>
  ELSE <<"**", UpperCase(Head(rs).model), "**:">> \o Head(rs).content
         \o LabelledResponses(Tail(rs))

\* Mutation of SynthesisErrorAnalysis: the catch block is missing and the
\* caller gets no analysis.
SynthesisErrorAnalysis_Rethrown(rs) == Null

\* synthesizeWithErrorHandling, catch branch: the returned object
SynthesisErrorAnalysis(rs) ==
  [unifiedResponse |-> <<"Error", "during", "synthesis.">> \o LabelledResponses(rs),
   alignment |-> [semantic |-> Zero,
                  surface |-> Zero,
                  gemini |-> "low",
                  chatgpt |-> "low",
                  claude |-> "low",
                  overallAlignment |-> "low",
                  description |-> "Synthesis error occurred",
                  alignedPoints |-> <<>>],
   alignedPoints |-> <<>>,
   divergentSections |->
     << DivergentSection("Synthesis Error",
          "Unable to synthesize responses due to technical error",
          ModelsOf(rs), "Technical error prevented proper synthesis") >>,
   originalResponses |-> rs]

\* synthesizeResponses: the returned object
SynthesizedAnalysis(rs, align, unified) ==
  [unifiedResponse |-> unified,
   alignment |-> align,
   alignedPoints |-> align.alignedPoints,
   divergentSections |-> findDivergences(rs),
   originalResponses |-> rs]

-----------------------------------------------------------------------------
(* ResultStorage *)

\* `result_${Date.now()}_${Math.random().toString(36).substr(2, 9)}`: the id
\* is determined by, and determines, the pair (millisecond, random suffix).
generateId(t, r) == <<"result", t, r>>

\* ttlMinutes * 60 * 1000, with ttlMinutes given in thousandths.
TtlMs(ttlMilliMinutes) == (ttlMilliMinutes * MsPerMinute) \div 1000

\* Date.now() - stored.timestamp > stored.ttl
IsExpired(stored, t) == t - stored.timestamp > stored.ttl

\* Map.set(id, {id, result, timestamp, ttl})
StoragePut(map, id, result, t, ttl) ==
  [k \in DOMAIN map \cup {id} |->
     IF k = id THEN [result |-> result, timestamp |-> t, ttl |-> ttl]
     ELSE map[k]]

\* Map.delete(id)
StorageRemove(map, id) == [k \in DOMAIN map \ {id} |-> map[k]]

\* Mutation of RetrieveValue: the read-time expiry check is left to the sweep.
RetrieveValue_NoExpiryCheck(map, id, t) ==
  IF id \notin DOMAIN map THEN Null ELSE map[id].result

\* retrieve(id): the value returned
RetrieveValue(map, id, t) ==
  IF id \notin DOMAIN map THEN Null
  ELSE IF IsExpired(map[id], t) THEN Null
  ELSE map[id].result

\* retrieve(id): the storage afterwards (an expired entry is deleted)
RetrieveStorage(map, id, t) ==
  IF id \in DOMAIN map /\ IsExpired(map[id], t) THEN StorageRemove(map, id)
  ELSE map

\* Mutation of CleanupStorage: every entry is aged against the default TTL.
CleanupStorage_DefaultTtl(map, t) ==
  [k \in {i \in DOMAIN map : t - map[i].timestamp <= TtlMs(DefaultTtlMinutes * 1000)} |->
     map[k]]

\* cleanup(): the storage afterwards
CleanupStorage(map, t) ==
  [k \in {i \in DOMAIN map : ~IsExpired(map[i], t)} |-> map[k]]

\* Ids a caller may present: every id ever issued, and one never issued.
UnknownId == <<"non-existent-id">>
IssuedIds == {storeLog[i].id : i \in 1..Len(storeLog)}
CallerIds == IssuedIds \cup {UnknownId}

\* The latest store() call that returned id (its timestamp, ttl and result).
LatestStore(id) ==
  LET at == {i \in 1..Len(storeLog) : storeLog[i].id = id}
  IN  storeLog[CHOOSE i \in at : \A j \in at : j <= i]

\* History only: more than ttl milliseconds have passed since the latest
\* store() call that returned id.
TtlElapsed(id) ==
  /\ id \in IssuedIds
  /\ now - LatestStore(id).timestamp > LatestStore(id).ttl

NoCall == [op |-> "none"]

\* History only: the record of one store() call; `removed` becomes TRUE when
\* delete(id) is called afterwards.
StoreRecord(id, result, t, ttl) ==
  [id |-> id, result |-> result, timestamp |-> t, ttl |-> ttl, removed |-> FALSE]

MarkRemoved(log, id) ==
  [i \in 1..Len(log) |-> IF log[i].id = id THEN [log[i] EXCEPT !.removed = TRUE] ELSE log[i]]

StoreCall(result, ttlMilliMinutes, r) ==
  /\ Len(storeLog) < MaxStores
  /\ LET id == generateId(now, r)
         ttl == TtlMs(ttlMilliMinutes)
     IN  /\ storage' = StoragePut(storage, id, result, now, ttl)
         /\ storeLog' = Append(storeLog, StoreRecord(id, result, now, ttl))
  /\ lastRet' = NoCall
  /\ UNCHANGED <<now, nextSweep, advances, served>>
  /\ UNCHANGED pipeVars

RetrieveCall(id) ==
  /\ lastRet' = [op |-> "retrieve", id |-> id,
                 value |-> RetrieveValue(storage, id, now),
                 present |-> id \in DOMAIN storage,
                 elapsed |-> TtlElapsed(id)]
  /\ storage' = RetrieveStorage(storage, id, now)
  /\ UNCHANGED <<now, nextSweep, advances, storeLog, served>>
  /\ UNCHANGED pipeVars

DeleteCall(id) ==
  /\ lastRet' = [op |-> "delete", id |-> id,
                 value |-> id \in DOMAIN storage]
  /\ storage' = StorageRemove(storage, id)
  /\ storeLog' = MarkRemoved(storeLog, id)
  /\ UNCHANGED <<now, nextSweep, advances, served>>
  /\ UNCHANGED pipeVars

\* The id of a request whose path parameter is '' (or missing).
EmptyId == <<>>

\* GET: the storage afterwards.  With an id, retrieve(id) drops an expired
\* entry and after a successful retrieve the handler calls delete(id).
GetStorage(map, id, t) ==
  IF id = EmptyId THEN map
  ELSE IF RetrieveValue(map, id, t) = Null THEN RetrieveStorage(map, id, t)
  ELSE StorageRemove(RetrieveStorage(map, id, t), id)

\* Mutation of GetResponse: the `!id` check is missing.
GetResponse_NoIdCheck(map, id, t) ==
  IF RetrieveValue(map, id, t) = Null
  THEN [status |-> 404, analysis |-> Null, consulted |-> TRUE,
        error |-> <<"Result", "not", "found", "or", "expired">>]
  ELSE [status |-> 200, analysis |-> RetrieveValue(map, id, t), consulted |-> TRUE,
        error |-> <<>>]

\* GET: the response.  `!id` -> 400; `!result` -> 404; otherwise
\* {analysis, retrieved: true}.  `consulted`: retrieve(id) was called.
GetResponse(map, id, t) ==
  IF id = EmptyId
  THEN [status |-> 400, analysis |-> Null, consulted |-> FALSE,
        error |-> <<"Result", "ID", "is", "required">>]
  ELSE IF RetrieveValue(map, id, t) = Null
  THEN [status |-> 404, analysis |-> Null, consulted |-> TRUE,
        error |-> <<"Result", "not", "found", "or", "expired">>]
  ELSE [status |-> 200, analysis |-> RetrieveValue(map, id, t), consulted |-> TRUE,
        error |-> <<>>]

\* GET api/ai/synthesis-result/[id]: 400, or retrieve and 404, or retrieve,
\* delete and 200.  Nothing suspends between retrieve and delete.
GetStore(id) ==
  /\ LET res == GetResponse(storage, id, now)
     IN  /\ lastRet' = [op |-> "get", id |-> id, value |-> res.analysis,
                        status |-> res.status, error |-> res.error,
                        consulted |-> res.consulted,
                        known |-> id \in IssuedIds, elapsed |-> TtlElapsed(id)]
         /\ served' = IF res.status = 200
                       THEN Append(served, [id |-> id, analysis |-> res.analysis])
                       ELSE served
         /\ storeLog' = IF res.status = 200 THEN MarkRemoved(storeLog, id) ELSE storeLog
  /\ storage' = GetStorage(storage, id, now)
  /\ UNCHANGED <<now, nextSweep, advances>>

\* A GET sent by any caller other than the page modelled below.
GetResult(id) ==
  /\ GetStore(id)
  /\ UNCHANGED pipeVars

\* The setInterval callback: never early, possibly late.
Cleanup ==
  /\ now >= nextSweep
  /\ storage' = CleanupStorage(storage, now)
  /\ nextSweep' = nextSweep + CleanupIntervalMs
  /\ lastRet' = NoCall
  /\ UNCHANGED <<now, advances, storeLog, served>>
  /\ UNCHANGED pipeVars

Advance(d) ==
  /\ advances < MaxAdvances
  /\ now' = now + d
  /\ advances' = advances + 1
  /\ lastRet' = NoCall
  /\ UNCHANGED <<storage, nextSweep, storeLog, served>>
  /\ UNCHANGED pipeVars

\* A promise returned by callModel / callModelWithProgress.
IdleCall == [status |-> "idle", value |-> <<>>, message |-> <<>>]
PendingCall == [status |-> "pending", value |-> <<>>, message |-> <<>>]

\* No event queue before the stream is constructed.
NoController == [queue |-> <<>>, closeCalls |-> 0, queueAtClose |-> 0]
NoResponse == [status |-> 0, error |-> <<>>]
NoAlignment == [semantic |-> Zero, surface |-> Zero]
NoProbe == [embeddings |-> <<>>, generation |-> "none"]

\* The page after its first render: useState('') / false / [] / null, and
\* nothing submitted.  The fields after `at` are the locals of handleSubmit
\* and handleStreamingSynthesis; `gets` and `waits` are history.
IdleClient ==
  [prompt |-> "", isLoading |-> FALSE, error |-> Null, conversations |-> <<>>,
   streamingResults |-> Null, at |-> "idle", currentPrompt |-> "", pos |-> 0,
   retries |-> 0, fetchSuccess |-> FALSE, resultId |-> EmptyId, resp |-> Null,
   due |-> 0, gets |-> <<>>, waits |-> <<>>]

\* const requiredKeys = ['GOOGLE_API_KEY', 'OPENAI_API_KEY', 'ANTHROPIC_API_KEY']
RequiredKeys == <<"GOOGLE_API_KEY", "OPENAI_API_KEY", "ANTHROPIC_API_KEY">>
AllKeys == {RequiredKeys[i] : i \in 1..Len(RequiredKeys)}

\* The JSON body and the environment of a request.
\*   prompt : "absent" (undefined), "empty" (""), "number" (123), "text"
\*   mode   : "absent" (undefined), "pro", "basic"
\*   keys   : the provider keys set (to a non-empty value) in process.env
\* The streaming endpoint is followed with all keys set.
Requests ==
  [endpoint : {"stream"}, mode : {"absent", "pro", "basic"},
   prompt : {"absent", "number", "text"}, keys : {AllKeys}]
    \cup
  [endpoint : {"sync"}, mode : {"absent", "pro", "basic"},
   prompt : {"absent", "empty", "number", "text"}, keys : SUBSET AllKeys]

\* Mutation of EffectiveMode: the destructuring default is missing.
EffectiveMode_NoDefault(r) == r.mode

\* const { prompt, mode = 'pro', attachments } = await request.json()
EffectiveMode(r) == IF r.mode = "absent" THEN "pro" ELSE r.mode

\* Mutation of PromptRejected: only a missing or empty prompt is refused.
PromptRejected_FalsyOnly(prompt) == prompt \in {"absent", "empty"}

\* !prompt || typeof prompt !== 'string'
PromptRejected(prompt) ==
  \/ prompt \in {"absent", "empty"}
  \/ prompt \notin {"empty", "text"}

\* Mutation of MissingKeys: every required key is reported.
MissingKeys_All(keys) == RequiredKeys

\* requiredKeys.filter(key => !process.env[key])
MissingKeys(keys) == SelectSeq(RequiredKeys, LAMBDA k : k \notin keys)

NoRequest ==
  /\ req = [endpoint |-> "none", mode |-> "pro", prompt |-> "text", keys |-> AllKeys]
  /\ pc = "done"
  /\ calls = [m \in ModelSet |-> IdleCall]
  /\ settled = <<>>
  /\ startTime = 0
  /\ idx = 0
  /\ timerDue = 0
  /\ responses = <<>>
  /\ synthIn = <<>>
  /\ alignment = NoAlignment
  /\ analysis = Null
  /\ extCalls = [embedding |-> 0, generation |-> 0]
  /\ probe = NoProbe
  /\ ctrl = NoController
  /\ http = NoResponse
  /\ costs = <<>>
  /\ client = IdleClient

\* The module-level singleton right after construction.
InitStorage ==
  /\ storage = <<>>
  /\ now = 0
  /\ nextSweep = CleanupIntervalMs
  /\ advances = 0
  /\ storeLog = <<>>
  /\ lastRet = NoCall
  /\ served = <<>>

InitStore ==
  /\ InitStorage
  /\ NoRequest

DoStore ==
  \E t \in TtlChoices, r \in RandSuffix :
    StoreCall(SampleResult(Len(storeLog) + 1), t, r)
DoRetrieve == \E id \in CallerIds : RetrieveCall(id)
DoDelete == \E id \in CallerIds : DeleteCall(id)
DoGet == \E id \in CallerIds \cup {EmptyId} : GetResult(id)
DoAdvance == \E d \in AdvanceSteps : Advance(d)

NextStore ==
  \/ DoStore
  \/ DoRetrieve
  \/ DoDelete
  \/ DoGet
  \/ Cleanup
  \/ DoAdvance

SpecStore == InitStore /\ [][NextStore]_vars

-----------------------------------------------------------------------------
(* The synthesis request *)

\* controller.enqueue(event)
Enqueue(c, ev) == [c EXCEPT !.queue = Append(@, ev)]

\* Mutation of CloseController: the finally block is missing.
CloseController_Missing(c) == c

\* controller.close() in the finally block
CloseController(c) ==
  [c EXCEPT !.closeCalls = @ + 1, !.queueAtClose = Len(c.queue)]

Event(type, progress) == [type |-> type, model |-> "none", progress |-> progress]
ModelEvent(type, m, progress) == [type |-> type, model |-> m, progress |-> progress]

\* Mutation of PromiseSettled: the await resumes for a fulfilled call only.
PromiseSettled_FulfilledOnly(c) == c.status = "fulfilled"

\* Mutation of PromiseSettled: the join does not wait for pending calls.
PromiseSettled_NoWait(c) == c.status \in {"pending", "fulfilled", "rejected"}

\* A promise that `await` / Promise.allSettled no longer waits for.
PromiseSettled(c) == c.status \in {"fulfilled", "rejected"}

\* Mutation of trackQuery: the log is replaced by the new entry.
trackQuery_Overwrite(log, tier, processingTime) ==
  << [tier |-> tier, processingTime |-> processingTime] >>

\* persistentCostTracker.trackQuery(tier, processingTime): costs.push(cost)
trackQuery(log, tier, processingTime) ==
  Append(log, [tier |-> tier, processingTime |-> processingTime])

\* The three calls are started one after the other, before the first await.
DispatchCalls ==
  /\ calls' = [m \in ModelSet |-> PendingCall]
  /\ startTime' = now

\* POST api/ai/synthesize-stream, and synthesizeWithStreaming up to its first
\* await: the mode check, the stream, the started event, the three calls.
StreamPost ==
  /\ pc = "received"
  /\ req.endpoint = "stream"
  /\ IF EffectiveMode(req) # "pro"
     THEN /\ http' = [status |-> 400,
                      error |-> <<"Streaming", "only", "available", "for", "Pro", "mode">>]
          /\ pc' = "done"
          /\ UNCHANGED <<calls, startTime, ctrl>>
     ELSE /\ http' = [status |-> 200, error |-> <<>>]
          /\ ctrl' = Enqueue(NoController, Event("started", 0))
          /\ DispatchCalls
          /\ pc' = "loop"
  /\ UNCHANGED <<client, probe, req, settled, idx, timerDue, responses, synthIn, alignment,
                 analysis, extCalls, costs, storeVars>>

\* POST api/ai/synthesize up to await Promise.allSettled(modelCalls)
PostSynthesize ==
  /\ pc = "received"
  /\ req.endpoint = "sync"
  /\ IF PromptRejected(req.prompt)
     THEN /\ http' = [status |-> 400, error |-> <<"Valid", "prompt", "is", "required">>]
          /\ pc' = "done"
          /\ UNCHANGED <<calls, startTime>>
     ELSE IF Len(MissingKeys(req.keys)) > 0
     THEN /\ http' = [status |-> 500,
                      error |-> <<"Missing", "API", "keys:">> \o MissingKeys(req.keys)]
          /\ pc' = "done"
          /\ UNCHANGED <<calls, startTime>>
     ELSE /\ DispatchCalls
          /\ pc' = "join"
          /\ UNCHANGED http
  /\ UNCHANGED <<client, probe, req, settled, idx, timerDue, responses, synthIn, alignment,
                 analysis, extCalls, ctrl, costs, storeVars>>

\* callModel / callModelWithProgress returns {model, content, responseTime}
\* or throws `${model} API call failed: ...`.
ProviderFulfil(m, content) ==
  /\ calls[m].status = "pending"
  /\ calls' = [calls EXCEPT ![m] =
       [status |-> "fulfilled",
        value |-> [model |-> m, content |-> content, responseTime |-> now - startTime],
        message |-> <<>>]]
  /\ settled' = Append(settled, m)
  /\ UNCHANGED <<client, probe, req, pc, startTime, idx, timerDue, responses, synthIn, alignment,
                 analysis, extCalls, ctrl, http, costs, storeVars>>

ProviderReject(m, cause) ==
  /\ calls[m].status = "pending"
  /\ calls' = [calls EXCEPT ![m] =
       [status |-> "rejected", value |-> <<>>, message |-> CallFailedMessage(m, cause)]]
  /\ settled' = Append(settled, m)
  /\ UNCHANGED <<client, probe, req, pc, startTime, idx, timerDue, responses, synthIn, alignment,
                 analysis, extCalls, ctrl, http, costs, storeVars>>

\* The response pushed for a settled call: its value, or the error placeholder.
ResponseOf(m) ==
  IF calls[m].status = "fulfilled" THEN calls[m].value
  ELSE ErrorResponse(m, calls[m].message)

\* The event enqueued for the call awaited at `index`.
ModelEventOf(m, index) ==
  IF calls[m].status = "fulfilled"
  THEN ModelEvent("model_complete", m, ModelProgress(index))
  ELSE ModelEvent("model_error", m, ModelProgress(index))

\* Mutation of NoResponses: any failed call counts as 'All models failed'.
NoResponses_AnyError(rs) == HasErrors(rs)

\* if (responses.length === 0) throw new Error('All models failed')
NoResponses(rs) == Len(rs) = 0

\* One round of `for (const [index, promise] of modelPromises.entries())`:
\* await the promise at idx, push, enqueue.  After the third round the code
\* runs on, without suspending, to the 1000 ms delay.
StreamLoopStep ==
  /\ pc = "loop"
  /\ PromiseSettled(calls[Models[idx + 1]])
  /\ LET m == Models[idx + 1]
         rs == Append(responses, ResponseOf(m))
         c1 == Enqueue(ctrl, ModelEventOf(m, idx))
     IN  /\ responses' = rs
         /\ IF idx + 1 < Len(Models)
            THEN /\ idx' = idx + 1
                 /\ ctrl' = c1
                 /\ UNCHANGED <<pc, synthIn, timerDue>>
            ELSE IF NoResponses(rs)
            THEN \* throw new Error('All models failed'); catch; finally
                 /\ ctrl' = CloseController(Enqueue(c1, Event("error", 0)))
                 /\ pc' = "done"
                 /\ UNCHANGED <<idx, synthIn, timerDue>>
            ELSE /\ synthIn' = ResponsesToSynthesize(rs)
                 /\ ctrl' = Enqueue(c1, Event("embeddings_started", 70))
                 /\ timerDue' = now + StreamDelayMs
                 /\ pc' = "delay"
                 /\ UNCHANGED idx
  /\ UNCHANGED <<client, probe, req, calls, settled, startTime, alignment, analysis, extCalls,
                 http, costs, storeVars>>

\* synthesizeWithErrorHandling(rs) up to its first await, or to its return.
SynthEnter(rs) ==
  /\ synthIn' = rs
  /\ IF Len(rs) = 0
     THEN /\ analysis' = SynthesisErrorAnalysis(rs)
          /\ pc' = "synthesized"
          /\ UNCHANGED extCalls
     ELSE IF Len(rs) = 1
     THEN /\ analysis' = SingleResponseAnalysis(rs)
          /\ pc' = "synthesized"
          /\ UNCHANGED extCalls
     ELSE \* synthesizeResponses -> calculateAlignment -> one embedding request per text
          /\ extCalls' = [extCalls EXCEPT !.embedding = @ + Len(rs)]
          /\ pc' = "embedding"
          /\ UNCHANGED analysis

\* Mutation of AfterDelayEvents: the embeddings_progress event is skipped.
AfterDelayEvents_SkipProgress(c) == Enqueue(c, Event("synthesis_started", 85))

\* The events enqueued when the delay is over.
AfterDelayEvents(c) ==
  Enqueue(Enqueue(c, Event("embeddings_progress", 80)), Event("synthesis_started", 85))

\* setTimeout(resolve, 1000) fires; embeddings_progress, synthesis_started,
\* then synthesizeWithErrorHandling(responsesToSynthesize).
StreamDelayDone ==
  /\ pc = "delay"
  /\ now >= timerDue
  /\ ctrl' = AfterDelayEvents(ctrl)
  /\ SynthEnter(synthIn)
  /\ UNCHANGED <<client, probe, req, calls, settled, startTime, idx, timerDue, responses, alignment,
                 http, costs, storeVars>>

\* Mutation of SettledResponses: a failed call leaves no placeholder.
SettledResponses_FulfilledOnly ==
  LET pick[i \in 0..Len(Models)] ==
        IF i = 0 THEN <<>>
        ELSE IF calls[Models[i]].status = "fulfilled"
             THEN Append(pick[i - 1], calls[Models[i]].value)
             ELSE pick[i - 1]
  IN  pick[Len(Models)]

\* results.forEach((result, index) => responses.push(...)): one response
\* per call, in dispatch order.
SettledResponses == [i \in 1..Len(Models) |-> ResponseOf(Models[i])]

\* Promise.allSettled(modelCalls) resolves; responses, validResponses,
\* responsesToSynthesize; then synthesizeWithErrorHandling.
PostJoin ==
  /\ pc = "join"
  /\ \A m \in ModelSet : PromiseSettled(calls[m])
  /\ LET rs == SettledResponses
     IN  /\ responses' = rs
         /\ SynthEnter(ResponsesToSynthesize(rs))
  /\ UNCHANGED <<client, probe, req, calls, settled, startTime, idx, timerDue, alignment, ctrl,
                 http, costs, storeVars>>

\* The embedding requests have all answered (or one has failed):
\* calculateAlignment finishes, createGPT4Synthesis sends its request.
EmbeddingsSettle(outs) ==
  /\ pc = "embedding"
  /\ alignment' = calculateAlignment(synthIn, outs)
  /\ extCalls' = [extCalls EXCEPT !.generation = @ + 1]
  /\ pc' = "generating"
  /\ UNCHANGED <<client, req, calls, settled, startTime, idx, timerDue, responses, synthIn,
                 analysis, ctrl, http, costs, storeVars>>

\* The text-generation request answers or fails: synthesizeResponses returns.
GenerationSettle(outcome) ==
  /\ pc = "generating"
  /\ analysis' = SynthesizedAnalysis(synthIn, alignment, createGPT4Synthesis(synthIn, outcome))
  /\ pc' = "synthesized"
  /\ UNCHANGED <<client, req, calls, settled, startTime, idx, timerDue, responses, synthIn,
                 alignment, extCalls, ctrl, http, costs, storeVars>>

\* The synthesis_complete event
CompleteEvent(resultId, rs) ==
  [type |-> "synthesis_complete", model |-> "none", progress |-> 100,
   resultId |-> resultId,
   metadata |-> [totalModels |-> Len(rs),
                 successfulModels |-> Len(ValidResponses(rs)),
                 hasErrors |-> HasErrors(rs)]]

\* synthesizeWithStreaming after await synthesizeWithErrorHandling: cost
\* record, resultStorage.store(analysis), synthesis_complete, finally close.
StreamFinish(r) ==
  /\ pc = "synthesized"
  /\ req.endpoint = "stream"
  /\ LET id == generateId(now, r)
         ttl == TtlMs(DefaultTtlMinutes * 1000)
     IN  /\ costs' = trackQuery(costs, "pro", now - startTime)
         /\ storage' = StoragePut(storage, id, analysis, now, ttl)
         /\ storeLog' = Append(storeLog, StoreRecord(id, analysis, now, ttl))
         /\ ctrl' = CloseController(Enqueue(ctrl, CompleteEvent(id, responses)))
  /\ pc' = "done"
  /\ UNCHANGED <<client, probe, req, calls, settled, startTime, idx, timerDue, responses, synthIn,
                 alignment, analysis, extCalls, http>>
  /\ UNCHANGED <<now, nextSweep, advances, lastRet, served>>

\* POST api/ai/synthesize after await synthesizeWithErrorHandling: cost
\* record and the 200 response.
PostFinish ==
  /\ pc = "synthesized"
  /\ req.endpoint = "sync"
  /\ costs' = trackQuery(costs, EffectiveMode(req), now - startTime)
  /\ http' = [status |-> 200, error |-> <<>>, analysis |-> analysis,
              metadata |-> [modelCount |-> Len(synthIn), hasErrors |-> HasErrors(responses)]]
  /\ pc' = "done"
  /\ UNCHANGED <<client, probe, req, calls, settled, startTime, idx, timerDue, responses, synthIn,
                 alignment, analysis, extCalls, ctrl, storeVars>>

Init ==
  /\ InitStorage
  /\ req \in Requests
  /\ pc = "received"
  /\ calls = [m \in ModelSet |-> IdleCall]
  /\ settled = <<>>
  /\ startTime = 0
  /\ idx = 0
  /\ timerDue = 0
  /\ responses = <<>>
  /\ synthIn = <<>>
  /\ alignment = NoAlignment
  /\ analysis = Null
  /\ extCalls = [embedding |-> 0, generation |-> 0]
  /\ probe = NoProbe
  /\ ctrl = NoController
  /\ http = NoResponse
  /\ costs = <<>>
  /\ client = IdleClient

DoFulfil == \E m \in ModelSet, c \in ContentChoices : ProviderFulfil(m, c)
DoReject == \E m \in ModelSet, cause \in FailureCauses : ProviderReject(m, cause)
\* Within a request the two services answer with one outcome of each kind
\* the code tells apart; SpecSynth below draws from the full sets.
RequestEmbedOutcomes == {EmbedFailed, <<1, 0>>, <<0, 1>>}
RequestGenOutcomes == {"httpError", "emptyContent", "content"}

DoEmbeddings ==
  /\ \E outs \in [1..Len(synthIn) -> RequestEmbedOutcomes] : EmbeddingsSettle(outs)
  /\ UNCHANGED probe
DoGeneration ==
  /\ \E g \in RequestGenOutcomes : GenerationSettle(g)
  /\ UNCHANGED probe
DoStreamFinish == \E r \in RandSuffix : StreamFinish(r)

\* While a request is served the clock is observed once per display delay.
Tick == Advance(StreamDelayMs)

\* The client of the stream, having read synthesis_complete, fetches
\* api/ai/synthesis-result/[id]; any caller may present any id.
ClientGet ==
  /\ pc = "done"
  /\ \E id \in CallerIds \cup {EmptyId} : GetResult(id)

\* Another streaming request reaches resultStorage.store(analysis) on the
\* same singleton, with an analysis of its own.  Stores made before this
\* request's own are left out: this request's store would overwrite them.
OtherStreamStore ==
  /\ pc = "done"
  /\ \E r \in RandSuffix :
       StoreCall(SampleResult(Len(storeLog) + 1), DefaultTtlMinutes * 1000, r)

Next ==
  \/ StreamPost
  \/ PostSynthesize
  \/ DoReject
  \/ DoFulfil
  \/ StreamLoopStep
  \/ StreamDelayDone
  \/ PostJoin
  \/ DoEmbeddings
  \/ DoGeneration
  \/ DoStreamFinish
  \/ PostFinish
  \/ Tick

Spec == Init /\ [][Next]_vars

\* synthesizeWithErrorHandling called on its own, as the library's callers
\* and tests do, with any list of at most one response per model; the
\* answers of the two services are kept in `probe`.
DirectCall ==
  [endpoint |-> "none", mode |-> "pro", prompt |-> "text", keys |-> AllKeys]

SynthResponses(m) ==
  {[model |-> m, content |-> c, responseTime |-> StreamDelayMs] :
     c \in ContentChoices \cup {LongText}}
    \cup {ErrorResponse(m, CallFailedMessage(m, cause)) : cause \in FailureCauses}

SynthInputs ==
  LET opt(m) == {<<>>} \cup {<<r>> : r \in SynthResponses(m)}
  IN  {a \o b \o c : a \in opt("gemini"), b \in opt("openai"), c \in opt("claude")}

InitSynth ==
  /\ InitStorage
  /\ req = DirectCall
  /\ pc = "called"
  /\ synthIn \in SynthInputs
  /\ calls = [m \in ModelSet |-> IdleCall]
  /\ settled = <<>>
  /\ startTime = 0
  /\ idx = 0
  /\ timerDue = 0
  /\ responses = <<>>
  /\ alignment = NoAlignment
  /\ analysis = Null
  /\ extCalls = [embedding |-> 0, generation |-> 0]
  /\ probe = NoProbe
  /\ ctrl = NoController
  /\ http = NoResponse
  /\ costs = <<>>
  /\ client = IdleClient

SynthCall ==
  /\ pc = "called"
  /\ SynthEnter(synthIn)
  /\ UNCHANGED <<client, probe, req, calls, settled, startTime, idx, timerDue, responses,
                 alignment, ctrl, http, costs, storeVars>>

SynthEmbeddings ==
  \E outs \in [1..Len(synthIn) -> EmbedOutcomes] :
    /\ EmbeddingsSettle(outs)
    /\ probe' = [probe EXCEPT !.embeddings = outs]

SynthGeneration ==
  \E g \in GenOutcomes :
    /\ GenerationSettle(g)
    /\ probe' = [probe EXCEPT !.generation = g]

NextSynth ==
  \/ SynthCall
  \/ SynthEmbeddings
  \/ SynthGeneration

SpecSynth == InitSynth /\ [][NextSynth]_vars

\* The cost log: one request on a process whose tracker has read the
\* entries of earlier queries from cost-tracking-data.json (loadData), or
\* found no file.
LoadedCosts == {<<>>, << [tier |-> "basic", processingTime |-> 5000] >>}

CostRequests ==
  {r \in Requests :
     \/ r.endpoint = "stream" /\ r.prompt = "text" /\ r.mode \in {"pro", "basic"}
     \/ r.endpoint = "sync" /\ r.mode = "basic" /\ r.prompt \in {"text", "empty"}
          /\ r.keys \in {AllKeys, AllKeys \ {"OPENAI_API_KEY"}}}

InitCost ==
  /\ InitStorage
  /\ req \in CostRequests
  /\ pc = "received"
  /\ calls = [m \in ModelSet |-> IdleCall]
  /\ settled = <<>>
  /\ startTime = 0
  /\ idx = 0
  /\ timerDue = 0
  /\ responses = <<>>
  /\ synthIn = <<>>
  /\ alignment = NoAlignment
  /\ analysis = Null
  /\ extCalls = [embedding |-> 0, generation |-> 0]
  /\ probe = NoProbe
  /\ ctrl = NoController
  /\ http = NoResponse
  /\ costs \in LoadedCosts
  /\ client = IdleClient

SpecCost == InitCost /\ [][Next]_vars

\* The scoring functions called on their own: calculateJaccardSimilarity and
\* findDivergences on lists of one to three texts, and the alignment level,
\* description and aligned points on a grid of score pairs.
GridSteps == 20
ScoreGrid == {Rat(k, GridSteps) : k \in 0..GridSteps}

\* A mean of cosines lies in [-1, 1]; a Jaccard score in [0, 1].
SemanticGrid == ScoreGrid \cup {Rat(0 - k, GridSteps) : k \in 1..GridSteps}

ScoreTexts ==
  ContentChoices
    \cup {LongText, ShortText, TechText, TwoSentences, EmptyText}
    \cup {<<"Error:">> \o CallFailedMessage("gemini", cause) : cause \in FailureCauses}

ScoreInputs ==
  LET opt(m) == {<<>>} \cup {<< [model |-> m, content |-> c, responseTime |-> StreamDelayMs] >> :
                               c \in ScoreTexts}
  IN  {a \o b \o c : a \in opt("gemini"), b \in opt("openai"), c \in opt("claude")} \ {<<>>}

InitScore ==
  /\ InitStorage
  /\ req = DirectCall
  /\ \/ /\ pc = "texts"
        /\ synthIn \in ScoreInputs
        /\ alignment = NoAlignment
     \/ /\ pc = "scores"
        /\ synthIn = <<>>
        /\ alignment \in {[semantic |-> a, surface |-> b] : a \in SemanticGrid, b \in ScoreGrid}
  /\ calls = [m \in ModelSet |-> IdleCall]
  /\ settled = <<>>
  /\ startTime = 0
  /\ idx = 0
  /\ timerDue = 0
  /\ responses = <<>>
  /\ analysis = Null
  /\ extCalls = [embedding |-> 0, generation |-> 0]
  /\ probe = NoProbe
  /\ ctrl = NoController
  /\ http = NoResponse
  /\ costs = <<>>
  /\ client = IdleClient

\* calculateJaccardSimilarity(contents)
ScoreJaccard ==
  /\ pc = "texts"
  /\ alignment' = [alignment EXCEPT !.surface = calculateJaccardSimilarity(ContentsOf(synthIn))]
  /\ pc' = "jaccard"
  /\ UNCHANGED <<client, probe, req, calls, settled, startTime, idx, timerDue, responses,
                 synthIn, analysis, extCalls, ctrl, http, costs, storeVars>>

\* findDivergences(responses)
ScoreDivergences ==
  /\ pc = "texts"
  /\ analysis' = [divergentSections |-> findDivergences(synthIn)]
  /\ pc' = "divergences"
  /\ UNCHANGED <<client, probe, req, calls, settled, startTime, idx, timerDue, responses,
                 synthIn, alignment, extCalls, ctrl, http, costs, storeVars>>

\* calculateAlignment, from the two scores on
ScoreAlignment ==
  /\ pc = "scores"
  /\ alignment' = AlignmentResult(alignment.semantic, alignment.surface, Models)
  /\ pc' = "aligned"
  /\ UNCHANGED <<client, probe, req, calls, settled, startTime, idx, timerDue, responses,
                 synthIn, analysis, extCalls, ctrl, http, costs, storeVars>>

NextScore ==
  \/ ScoreJaccard
  \/ ScoreDivergences
  \/ ScoreAlignment

SpecScore == InitScore /\ [][NextScore]_vars

\* The handoff: one accepted streaming request whose providers answer the
\* ordinary text or fail, the client's GET, and the store() calls of other
\* requests on the same singleton.
StreamRequest ==
  [endpoint |-> "stream", mode |-> "pro", prompt |-> "text", keys |-> AllKeys]

InitHandoff ==
  /\ Init
  /\ req = StreamRequest

DoFulfilPlain == \E m \in ModelSet : ProviderFulfil(m, <<"Neural", "networks", "learn">>)

NextHandoff ==
  \/ StreamPost
  \/ DoReject
  \/ DoFulfilPlain
  \/ StreamLoopStep
  \/ StreamDelayDone
  \/ DoEmbeddings
  \/ DoGeneration
  \/ DoStreamFinish
  \/ Tick
  \/ ClientGet
  \/ OtherStreamStore

SpecHandoff == InitHandoff /\ [][NextHandoff]_vars

-----------------------------------------------------------------------------
(* The two endpoints side by side: one valid request to either endpoint,   *)
(* with the answers of the two services recorded.                          *)

EquivRequests ==
  {r \in Requests : r.prompt = "text" /\ r.mode = "pro" /\ r.keys = AllKeys}

InitEquiv ==
  /\ Init
  /\ req \in EquivRequests

EquivEmbeddings ==
  \E outs \in [1..Len(synthIn) -> RequestEmbedOutcomes] :
    /\ EmbeddingsSettle(outs)
    /\ probe' = [probe EXCEPT !.embeddings = outs]

EquivGeneration ==
  \E g \in RequestGenOutcomes :
    /\ GenerationSettle(g)
    /\ probe' = [probe EXCEPT !.generation = g]

NextEquiv ==
  \/ StreamPost
  \/ PostSynthesize
  \/ DoReject
  \/ DoFulfil
  \/ StreamLoopStep
  \/ StreamDelayDone
  \/ PostJoin
  \/ EquivEmbeddings
  \/ EquivGeneration
  \/ DoStreamFinish
  \/ PostFinish
  \/ Tick

SpecEquiv == InitEquiv /\ [][NextEquiv]_vars

-----------------------------------------------------------------------------
(* Progress of a streaming request.  The event loop runs every handler     *)
(* continuation that is ready, and a timer that is set fires; that each    *)
(* provider call settles and that the two services answer or fail is the   *)
(* hypothesis under which progress is claimed.                             *)

StreamRequests == {r \in Requests : r.endpoint = "stream"}

InitLive ==
  /\ Init
  /\ req \in StreamRequests

\* The call to model m settles, one way or the other.
ProviderSettles(m) ==
  \/ ProviderFulfil(m, <<"Neural", "networks", "learn">>)
  \/ \E cause \in FailureCauses : ProviderReject(m, cause)

DoSettle == \E m \in ModelSet : ProviderSettles(m)

\* Time passes while the display delay is running.
DelayTick ==
  /\ pc = "delay"
  /\ now < timerDue
  /\ now' = now + StreamDelayMs
  /\ advances' = advances + 1
  /\ lastRet' = NoCall
  /\ UNCHANGED <<storage, nextSweep, storeLog, served>>
  /\ UNCHANGED pipeVars

NextLive ==
  \/ StreamPost
  \/ DoSettle
  \/ StreamLoopStep
  \/ DelayTick
  \/ StreamDelayDone
  \/ DoEmbeddings
  \/ DoGeneration
  \/ DoStreamFinish

\* The steps in which the embedding requests and the generation request
\* answer or fail: those of DoEmbeddings and DoGeneration, told by the
\* position of the handler.
EmbeddingsAnswer == pc = "embedding" /\ pc' = "generating"
GenerationAnswers == pc = "generating" /\ pc' = "synthesized"

Fairness ==
  /\ WF_vars(StreamPost)
  /\ WF_vars(StreamLoopStep)
  /\ WF_vars(DelayTick)
  /\ WF_vars(StreamDelayDone)
  /\ WF_vars(DoStreamFinish)
  /\ \A m \in ModelSet : WF_vars(ProviderSettles(m))
  /\ WF_pc(EmbeddingsAnswer)
  /\ WF_pc(GenerationAnswers)

SpecLive == InitLive /\ [][NextLive]_vars /\ Fairness

-----------------------------------------------------------------------------
(* The consensus page (app/consensus), in its default Pro mode *)

MaxClientAdvances == 4

\* let retries = 3
FetchAttempts == 3
\* setTimeout(resolve, 1000) between two attempts
RetryDelayMs == 1000

\* The values of the prompt field: empty, whitespace only, a question.
TypedPrompts == {"blank", "text"}

\* !prompt.trim()
TrimmedEmpty(p) == p \in {"", "blank"}

requestVars == <<req, pc, calls, settled, startTime, idx, timerDue, responses, synthIn,
                 alignment, analysis, extCalls, probe, ctrl, http, costs>>

\* The catch block of synthesizeWithStreaming: {type: 'error', error: message}
ErrorEvent(message) ==
  [type |-> "error", model |-> "none", progress |-> 0, error |-> message]

\* handleSubmit, finally: setIsLoading(false)
SubmitReturns(c) == [c EXCEPT !.isLoading = FALSE, !.at = "returned"]

\* handleSubmit, catch: setError(err.message); setPrompt(currentPrompt)
SubmitCatches(c, message) ==
  SubmitReturns([c EXCEPT !.error = [message |-> message], !.prompt = c.currentPrompt])

\* const streamingResult = {prompt, progress: 0, models: {}, currentPhase: 'Starting...'}
NewStreamingResult(p) ==
  [prompt |-> p, progress |-> 0, models |-> {}, currentPhase |-> "Starting..."]

\* The switch on data.type for the events that only update the display.
DisplayEvent(sr, ev) ==
  CASE ev.type = "model_complete" ->
         [sr EXCEPT !.models = @ \cup {<<ev.model, "completed">>},
                    !.progress = ev.progress, !.currentPhase = "model completed"]
    [] ev.type = "model_error" ->
         [sr EXCEPT !.models = @ \cup {<<ev.model, "failed">>}, !.progress = ev.progress]
    [] OTHER -> [sr EXCEPT !.progress = ev.progress, !.currentPhase = ev.type]

\* History: one entry per fetch of the result.  processed: the GET handler
\* ran; status / elapsed: its answer and whether the TTL had elapsed then;
\* received: the page read the response.
NewGet == [processed |-> FALSE, status |-> 0, elapsed |-> FALSE, received |-> FALSE]

\* One pass of `while (retries > 0 && !fetchSuccess)` up to its await fetch,
\* or, the condition being false, setStreamingResults(null); return; and the
\* finally of handleSubmit.
FetchLoop(c) ==
  IF c.retries > 0 /\ ~c.fetchSuccess
  THEN [c EXCEPT !.at = "fetching", !.gets = Append(@, NewGet)]
  ELSE SubmitReturns([c EXCEPT !.streamingResults = Null])

\* catch (fetchError): retries--; wait one second, or setError after the last.
FetchCatch(c, cause, t) ==
  IF c.retries - 1 > 0
  THEN [c EXCEPT !.retries = @ - 1, !.at = "waiting", !.due = t + RetryDelayMs,
                 !.waits = Append(@, RetryDelayMs)]
  ELSE FetchLoop([c EXCEPT !.retries = @ - 1,
         !.error = [message |-> "Failed to retrieve synthesis result after 3 attempts",
                    cause |-> cause]])

\* onChange of the textarea (disabled while isLoading): setPrompt(value)
ClientType ==
  /\ client.at = "idle"
  /\ ~client.isLoading
  /\ \E p \in TypedPrompts : client' = [client EXCEPT !.prompt = p]
  /\ UNCHANGED <<requestVars, storeVars>>

\* handleSubmit up to `await fetch('/api/ai/synthesize-stream', ...)`; the
\* request carries mode 'pro' and reaches a server with its keys set.
ClientSubmit ==
  /\ client.at = "idle"
  /\ ~(TrimmedEmpty(client.prompt) \/ client.isLoading)
  /\ client' = [client EXCEPT !.currentPrompt = client.prompt, !.prompt = "",
                              !.isLoading = TRUE, !.error = Null, !.at = "posting"]
  /\ req' = [endpoint |-> "stream", mode |-> "pro", prompt |-> client.prompt,
             keys |-> AllKeys]
  /\ pc' = "received"
  /\ UNCHANGED <<calls, settled, startTime, idx, timerDue, responses, synthIn, alignment,
                 analysis, extCalls, probe, ctrl, http, costs, storeVars>>

\* fetch rejects: the request never reached the handler.
ClientPostFails ==
  /\ client.at = "posting"
  /\ pc = "received"
  /\ client' = SubmitCatches(client, "Failed to fetch")
  /\ pc' = "done"
  /\ UNCHANGED <<req, calls, settled, startTime, idx, timerDue, responses, synthIn,
                 alignment, analysis, extCalls, probe, ctrl, http, costs, storeVars>>

\* The response headers arrive: !response.ok throws, otherwise
\* setStreamingResults({...streamingResult}) and the first reader.read().
ClientPostResponse ==
  /\ client.at = "posting"
  /\ http.status # 0
  /\ client' = IF http.status # 200
               THEN SubmitCatches(client, "Failed to start streaming synthesis")
               ELSE [client EXCEPT !.streamingResults = NewStreamingResult(client.currentPrompt),
                                   !.at = "reading", !.pos = 0]
  /\ UNCHANGED <<requestVars, storeVars>>

\* reader.read() yields the next event (each event arrives whole, in a chunk
\* of its own).  synthesis_complete starts the fetch loop; the throw of
\* 'error' is caught by the catch around JSON.parse, which only logs; every
\* other event updates the display.
ClientReadEvent ==
  /\ client.at = "reading"
  /\ client.pos < Len(ctrl.queue)
  /\ LET ev == ctrl.queue[client.pos + 1]
         c == [client EXCEPT !.pos = @ + 1]
     IN  client' =
           CASE ev.type = "synthesis_complete" ->
                  FetchLoop([c EXCEPT !.retries = FetchAttempts, !.fetchSuccess = FALSE,
                                      !.resultId = ev.resultId])
             [] ev.type = "error" -> c
             [] OTHER -> [c EXCEPT !.streamingResults = DisplayEvent(@, ev)]
  /\ UNCHANGED <<requestVars, storeVars>>

\* reader.read() yields done: break, releaseLock, return, finally.
ClientStreamEnd ==
  /\ client.at = "reading"
  /\ client.pos = Len(ctrl.queue)
  /\ ctrl.closeCalls > 0
  /\ client' = SubmitReturns(client)
  /\ UNCHANGED <<requestVars, storeVars>>

\* fetch of the result rejects before the request reached the handler.
ClientGetUnsent ==
  /\ client.at = "fetching"
  /\ client' = FetchCatch(client, "Failed to fetch", now)
  /\ UNCHANGED <<requestVars, storeVars>>

\* The GET handler runs for the page's request; its response is on its way.
ServerGet ==
  /\ client.at = "fetching"
  /\ GetStore(client.resultId)
  /\ LET res == GetResponse(storage, client.resultId, now)
     IN  client' = [client EXCEPT !.at = "answered", !.resp = res,
                      !.gets[Len(client.gets)] =
                         [@ EXCEPT !.processed = TRUE, !.status = res.status,
                                   !.elapsed = TtlElapsed(client.resultId)]]
  /\ UNCHANGED requestVars

\* The response arrives: !resultResponse.ok throws into the catch; otherwise
\* setConversations(prev => [...prev, {prompt, analysis}]), fetchSuccess.
ClientGetResponse ==
  /\ client.at = "answered"
  /\ LET c == [client EXCEPT !.resp = Null, !.gets[Len(client.gets)].received = TRUE]
     IN  client' =
           IF client.resp.status # 200
           THEN FetchCatch(c, "Failed to fetch synthesis result", now)
           ELSE FetchLoop([c EXCEPT !.fetchSuccess = TRUE,
                  !.conversations = Append(@, [prompt |-> client.currentPrompt,
                                               analysis |-> client.resp.analysis])])
  /\ UNCHANGED <<requestVars, storeVars>>

\* The response is lost on its way: fetch (or resultResponse.json()) rejects.
ClientGetLost ==
  /\ client.at = "answered"
  /\ client' = FetchCatch([client EXCEPT !.resp = Null], "Failed to fetch", now)
  /\ UNCHANGED <<requestVars, storeVars>>

\* The one-second timer fires: the loop condition is evaluated again.
ClientWaitDone ==
  /\ client.at = "waiting"
  /\ now >= client.due
  /\ client' = FetchLoop(client)
  /\ UNCHANGED <<requestVars, storeVars>>

\* The catch and finally blocks of synthesizeWithStreaming, for an exception
\* raised while the handler is suspended.  No step modelled above raises one
\* (Spec never reaches the 'error' event); the runtime can.
StreamCatch ==
  /\ pc = "loop"
  /\ ctrl' = CloseController(Enqueue(ctrl, ErrorEvent("Unknown error occurred")))
  /\ pc' = "done"
  /\ UNCHANGED <<client, probe, req, calls, settled, startTime, idx, timerDue, responses,
                 synthIn, alignment, analysis, extCalls, http, costs, storeVars>>

\* A timer of the request or of the page is running.
TimerRunning ==
  \/ pc = "delay" /\ now < timerDue
  \/ client.at = "waiting" /\ now < client.due

\* The clock while the page is followed: one second while a timer (the
\* display delay, the retry delay) is running, and the default TTL of a
\* stored result while a fetch of the result is on its way to the server.
ClientClock ==
  /\ advances < MaxClientAdvances
  /\ \/ TimerRunning /\ now' = now + StreamDelayMs
     \/ client.at = "fetching" /\ now' = now + TtlMs(DefaultTtlMinutes * 1000) + 1
  /\ advances' = advances + 1
  /\ lastRet' = NoCall
  /\ UNCHANGED <<storage, nextSweep, storeLog, served>>
  /\ UNCHANGED pipeVars

\* The two services answer the page's request alike for every text, with
\* success or with failure.
ClientEmbeddings ==
  /\ \E e \in {EmbedFailed, <<1, 0>>} : EmbeddingsSettle([i \in 1..Len(synthIn) |-> e])
  /\ UNCHANGED probe
ClientGeneration ==
  /\ \E g \in {"httpError", "content"} : GenerationSettle(g)
  /\ UNCHANGED probe

\* The page is rendered and no request has been made.
InitClient ==
  /\ InitStorage
  /\ NoRequest

NextClient ==
  \/ ClientType
  \/ ClientSubmit
  \/ ClientPostFails
  \/ StreamPost
  \/ ClientPostResponse
  \/ DoReject
  \/ DoFulfilPlain
  \/ StreamLoopStep
  \/ StreamCatch
  \/ StreamDelayDone
  \/ ClientEmbeddings
  \/ ClientGeneration
  \/ DoStreamFinish
  \/ ClientReadEvent
  \/ ClientStreamEnd
  \/ ClientGetUnsent
  \/ ServerGet
  \/ ClientGetResponse
  \/ ClientGetLost
  \/ ClientWaitDone
  \/ ClientClock

SpecClient == InitClient /\ [][NextClient]_vars

-----------------------------------------------------------------------------
(* Vocabulary of the pipeline claims *)

Fulfilled == {m \in ModelSet : calls[m].status = "fulfilled"}
Rejected == {m \in ModelSet : calls[m].status = "rejected"}

\* The similarity / synthesis part of the pipeline has begun (or is over).
PastJoin ==
  \/ pc \in {"delay", "embedding", "generating", "synthesized"}
  \/ pc = "done" /\ analysis # Null

Range(q) == {q[i] : i \in 1..Len(q)}

\* The placeholder each failed provider is to be represented by.
PlaceholderOf(m) ==
  [model |-> m, content |-> <<"Error:">> \o calls[m].message, responseTime |-> 0]

Accepted == req.endpoint = "stream" /\ http.status = 200
EventTypes == [i \in 1..Len(ctrl.queue) |-> ctrl.queue[i].type]
TerminalAt == {i \in 1..Len(ctrl.queue) : ctrl.queue[i].type \in {"synthesis_complete", "error"}}
StreamCompleted ==
  /\ Accepted
  /\ Len(ctrl.queue) > 0
  /\ ctrl.queue[Len(ctrl.queue)].type = "synthesis_complete"

\* The analysis the client receives: the body of the 200 response, or the
\* result stored under the resultId of synthesis_complete.
Delivered ==
  IF req.endpoint = "sync" THEN http.analysis
  ELSE LatestStore(ctrl.queue[Len(ctrl.queue)].resultId).result
HasDelivered ==
  \/ req.endpoint = "sync" /\ http.status = 200
  \/ StreamCompleted

(* C2: the three provider calls are dispatched together before the first   *)
(* wait; nothing of similarity or synthesis begins while a call is still   *)
(* pending; and every call that fulfilled has its own response in the      *)
(* joined list, whatever the other two did and in whatever order.          *)
C2_AllSettledJoin ==
  /\ pc \in {"loop", "join"} => \A m \in ModelSet : calls[m].status # "idle"
  /\ PastJoin =>
       /\ \A m \in ModelSet : calls[m].status \in {"fulfilled", "rejected"}
       /\ \A m \in Fulfilled : calls[m].value \in Range(responses)
       /\ Len(responses) = 3

\* A streaming run in which claude settled first, one call failed, and the
\* embedding phase has begun.
C2_Witness ==
  /\ req.endpoint = "stream"
  /\ pc = "embedding"
  /\ settled[1] = "claude"
  /\ Rejected # {}
  /\ Fulfilled # {}

\* The same for the non-streaming endpoint: gemini failed, settled last.
C2_WitnessSync ==
  /\ req.endpoint = "sync"
  /\ pc = "embedding"
  /\ settled[3] = "gemini"
  /\ Rejected = {"gemini"}

(* C3: the list fed into similarity / synthesis is exactly the responses   *)
(* of the providers that did not fail when at least one succeeded, and the *)
(* three error placeholders when all three failed.                         *)
C3_SynthesisInput ==
  PastJoin =>
    IF Fulfilled # {}
    THEN /\ Range(synthIn) = {calls[m].value : m \in Fulfilled}
         /\ Len(synthIn) = Cardinality(Fulfilled)
    ELSE synthIn = [i \in 1..3 |-> PlaceholderOf(Models[i])]

(* C4: the analysis returned to the client has one originalResponses entry *)
(* per provider, a failed provider being represented by an error-marked    *)
(* placeholder with responseTime 0.                                        *)
C4_OriginalResponsesComplete ==
  HasDelivered =>
    /\ Len(Delivered.originalResponses) = 3
    /\ \A i \in 1..3 :
         /\ Delivered.originalResponses[i].model = Models[i]
         /\ Models[i] \in Rejected =>
              /\ StartsWithError(Delivered.originalResponses[i].content)
              /\ Delivered.originalResponses[i].responseTime = 0

(* C5: an accepted stream holds at most one terminal event, it is the last *)
(* event, close() is called exactly once and only after the terminal       *)
(* event, and a finished stream has its terminal event.                    *)
C5_StreamTerminatesOnce ==
  Accepted =>
    /\ Cardinality(TerminalAt) <= 1
    /\ \A i \in TerminalAt : i = Len(ctrl.queue)
    /\ ctrl.closeCalls <= 1
    /\ ctrl.closeCalls = 1 => TerminalAt # {} /\ ctrl.queueAtClose = Len(ctrl.queue)
    /\ TerminalAt # {} => ctrl.closeCalls = 1
    /\ pc = "done" => Cardinality(TerminalAt) = 1

\* A stream that ended in synthesis_complete and was closed.
C5_Witness ==
  /\ StreamCompleted
  /\ pc = "done"
  /\ ctrl.closeCalls = 1

(* C6: the events of a stream are, in this order, started, three model     *)
(* events (one per provider), embeddings_started, embeddings_progress,     *)
(* synthesis_started, synthesis_complete; a stream that ends in            *)
(* synthesis_complete holds all eight.                                     *)
C6_PhaseOrder ==
  Accepted =>
    /\ Len(EventTypes) <= 8
    /\ \A i \in 1..Len(EventTypes) :
         EventTypes[i] \in
           CASE i = 1 -> {"started"}
             [] i \in 2..4 -> {"model_complete", "model_error"}
             [] i = 5 -> {"embeddings_started"}
             [] i = 6 -> {"embeddings_progress"}
             [] i = 7 -> {"synthesis_started"}
             [] OTHER -> {"synthesis_complete"}
    /\ \A i, j \in 2..4 :
         (i < j /\ j <= Len(EventTypes)) => ctrl.queue[i].model # ctrl.queue[j].model
    /\ StreamCompleted => Len(EventTypes) = 8

\* A completed stream that took the single-valid-response shortcut.
C6_Witness ==
  /\ StreamCompleted
  /\ Len(synthIn) = 1
  /\ Cardinality(Rejected) = 2

(* C7: the model_complete / model_error events of a stream (opened for a   *)
(* request with a proper prompt) appear in the order in which the provider *)
(* calls settled.                                                          *)
C7_CompletionOrder ==
  (Accepted /\ req.prompt = "text" /\ Len(ctrl.queue) >= 4) =>
     [i \in 1..3 |-> ctrl.queue[i + 1].model] = settled

(* C8: when exactly one response is fed to synthesizeWithErrorHandling,    *)
(* the unified response is that provider's content as returned, semantic   *)
(* and surface are 1, and no embedding or text-generation request is sent. *)
C8_SingletonShortcut ==
  (PastJoin /\ Len(synthIn) = 1 /\ pc # "delay") =>
    /\ pc \in {"synthesized", "done"}
    /\ \E m \in Fulfilled :
         /\ synthIn[1].model = m
         /\ analysis.unifiedResponse = calls[m].value.content
    /\ RatEq(analysis.alignment.semantic, One)
    /\ RatEq(analysis.alignment.surface, One)
    /\ extCalls.embedding = 0
    /\ extCalls.generation = 0

\* Exactly one provider succeeded and its analysis has been delivered.
C8_Witness ==
  /\ HasDelivered
  /\ Cardinality(Fulfilled) = 1
  /\ Len(synthIn) = 1
  /\ Delivered.unifiedResponse = synthIn[1].content

(* C9: when all three provider calls fail, the non-streaming endpoint      *)
(* answers 200 and the stream ends in synthesis_complete, with three       *)
(* error-marked originalResponses and a non-empty unifiedResponse.         *)
C9_AllFailResilience ==
  (Cardinality(Rejected) = 3 /\ pc = "done") =>
    /\ HasDelivered
    /\ Len(Delivered.originalResponses) = 3
    /\ \A i \in 1..3 :
         /\ Delivered.originalResponses[i].model = Models[i]
         /\ StartsWithError(Delivered.originalResponses[i].content)
    /\ Len(Delivered.unifiedResponse) > 0

\* All three calls failed, the embedding request failed too and the
\* text-generation request failed: the answer is still delivered.
C9_Witness ==
  /\ Cardinality(Rejected) = 3
  /\ pc = "done"
  /\ HasDelivered
  /\ RatEq(Delivered.alignment.semantic, Rat(1, 2))
  /\ Delivered.unifiedResponse = createFallbackSynthesis(synthIn)

-----------------------------------------------------------------------------
(* C1: a retrieve(id) made after the TTL of id has elapsed (more than ttl   *)
(* milliseconds after the store() that issued id) answers not-found, never  *)
(* the stored result, whether or not the sweep has removed the entry.       *)
C1_ExpiredNeverReturned ==
  (lastRet.op = "retrieve" /\ lastRet.elapsed) => lastRet.value = Null

\* An expired entry that the sweep had not yet removed was asked for.
C1_Witness ==
  /\ lastRet.op = "retrieve"
  /\ lastRet.elapsed
  /\ lastRet.present
  /\ lastRet.value = Null

(* C10: any two store() calls return distinct ids.                          *)
C10_DistinctIds ==
  \A i, j \in 1..Len(storeLog) : i # j => storeLog[i].id # storeLog[j].id

(* C11: a retrieve(id) returns the result passed to the store() call that  *)
(* returned id, for every such call whose TTL has not elapsed and after    *)
(* which delete(id) was not called, whatever else was stored or retrieved. *)
C11_RoundTrip ==
  lastRet.op = "retrieve" =>
    \A i \in 1..Len(storeLog) :
      ( /\ storeLog[i].id = lastRet.id
        /\ ~storeLog[i].removed
        /\ now - storeLog[i].timestamp <= storeLog[i].ttl )
      => lastRet.value = storeLog[i].result

(* C12: at most one GET per id is answered 200; after a 200 the entry is   *)
(* gone, so every later GET for that id is answered 404.                   *)
C12_OneTimeRetrieval ==
  /\ \A i, j \in 1..Len(served) : served[i].id = served[j].id => i = j
  /\ (lastRet.op = "get" /\ lastRet.status = 200) => lastRet.id \notin DOMAIN storage

\* The id carried by the synthesis_complete event of this request.
ResultId == ctrl.queue[Len(ctrl.queue)].resultId

\* History only: the GET just answered is the first one answered 200 or
\* 404 for id since no earlier GET for it was answered 200.
NotServedBefore(id) ==
  LET prior == IF lastRet.status = 200 THEN SubSeq(served, 1, Len(served) - 1) ELSE served
  IN  \A i \in 1..Len(prior) : prior[i].id # id

(* C13: once synthesis_complete is enqueued a store() call has returned    *)
(* its resultId for this request's analysis, and the first GET for that id *)
(* made before the TTL elapses is answered 200 with that analysis.         *)
C13_HandoffOrdering ==
  StreamCompleted =>
    /\ \E i \in 1..Len(storeLog) :
         storeLog[i].id = ResultId /\ storeLog[i].result = analysis
    /\ ( /\ lastRet.op = "get"
         /\ lastRet.id = ResultId
         /\ ~TtlElapsed(ResultId)
         /\ NotServedBefore(ResultId) )
       => (lastRet.status = 200 /\ lastRet.value = analysis)

\* The text-generation request failed: network error, non-OK status, or a
\* body that is not the expected JSON shape.
GenFailed ==
  probe.generation \in {"networkError", "httpError", "invalidJson", "noChoices", "noMessage"}

\* The text-generation request succeeded with empty content or no choices.
GenEmpty == probe.generation \in {"emptyChoices", "emptyContent"}

(* C14: when the text-generation call fails (network error, non-OK status, *)
(* malformed body) the unified answer is the deterministic fallback: intro, *)
(* one labelled 200-character excerpt per input response, conclusion.      *)
C14_GenerationFailureFallback ==
  (pc = "synthesized" /\ GenFailed) =>
    analysis.unifiedResponse = createFallbackSynthesis(synthIn)

(* C15: when the text-generation call succeeds with empty content or no    *)
(* choices, the unified answer is the deterministic labelled fallback.     *)
C15_EmptyContentFallback ==
  (pc = "synthesized" /\ GenEmpty) =>
    analysis.unifiedResponse = createFallbackSynthesis(synthIn)

\* An embedding request failed, or two returned vectors differ in length.
EmbeddingFailed ==
  \/ \E i \in 1..Len(probe.embeddings) : probe.embeddings[i] = EmbedFailed
  \/ \E i, j \in 1..Len(probe.embeddings) :
       Len(probe.embeddings[i]) # Len(probe.embeddings[j])

(* C16: when an embedding request fails or the vectors have mismatched     *)
(* lengths, the semantic score is exactly 0.5 and synthesis goes on: the   *)
(* surface score is computed, the generation request is sent and the       *)
(* analysis carries semantic 0.5 and a non-empty unified answer.           *)
C16_EmbeddingFailureAbsorbed ==
  EmbeddingFailed =>
    /\ pc \in {"generating", "synthesized"}
    /\ RatEq(alignment.semantic, Rat(1, 2))
    /\ RatEq(alignment.surface,
             calculateJaccardSimilarity([i \in 1..Len(synthIn) |-> synthIn[i].content]))
    /\ extCalls.generation = 1
    /\ pc = "synthesized" =>
         /\ RatEq(analysis.alignment.semantic, Rat(1, 2))
         /\ analysis.unifiedResponse # <<>>

C16_Witness ==
  /\ pc = "synthesized"
  /\ Len(synthIn) = 3
  /\ \A i \in 1..3 : probe.embeddings[i] # EmbedFailed
  /\ \E i, j \in 1..3 : Len(probe.embeddings[i]) # Len(probe.embeddings[j])
  /\ RatEq(analysis.alignment.semantic, Rat(1, 2))

C16_WitnessRejected ==
  /\ pc = "generating"
  /\ \E i \in 1..Len(probe.embeddings) : probe.embeddings[i] = EmbedFailed
  /\ \E i \in 1..Len(probe.embeddings) : probe.embeddings[i] = <<1, 0>>
  /\ RatEq(alignment.semantic, Rat(1, 2))

NoCallDispatched == \A m \in ModelSet : calls[m].status = "idle"

(* C17: a non-streaming request whose prompt is missing, empty or not a    *)
(* string is answered 400 'Valid prompt is required'; no provider call is  *)
(* dispatched and no cost record is written, whatever keys are configured. *)
C17_PromptValidation ==
  (req.endpoint = "sync" /\ req.prompt \in {"absent", "empty", "number"}) =>
    /\ NoCallDispatched
    /\ costs = <<>>
    /\ pc = "done" =>
         /\ http.status = 400
         /\ http.error = <<"Valid", "prompt", "is", "required">>

C17_Witness ==
  /\ req.endpoint = "sync"
  /\ req.prompt = "number"
  /\ req.keys = {}
  /\ pc = "done"
  /\ http.status = 400

(* C18: a streaming request whose prompt is missing or not a string is     *)
(* rejected with a client error; no provider call is dispatched and no     *)
(* event is streamed.                                                      *)
C18_StreamPromptValidation ==
  (req.endpoint = "stream" /\ req.prompt \in {"absent", "number"}) =>
    /\ NoCallDispatched
    /\ ctrl.queue = <<>>
    /\ pc = "done" => http.status \in 400..499

\* The key names listed after 'Missing API keys:'.
NamedKeys == SubSeq(http.error, 4, Len(http.error))

(* C19: a non-streaming request with a valid prompt and at least one of    *)
(* the three provider keys absent is answered 500 with an error that names *)
(* exactly the missing keys, and no provider call is dispatched.           *)
C19_MissingKeys ==
  (req.endpoint = "sync" /\ req.prompt = "text" /\ req.keys # AllKeys) =>
    /\ NoCallDispatched
    /\ pc = "done" =>
         /\ http.status = 500
         /\ SubSeq(http.error, 1, 3) = <<"Missing", "API", "keys:">>
         /\ Range(NamedKeys) = AllKeys \ req.keys
         /\ Len(NamedKeys) = Cardinality(AllKeys \ req.keys)

C19_Witness ==
  /\ req.endpoint = "sync"
  /\ req.prompt = "text"
  /\ req.keys = {"OPENAI_API_KEY"}
  /\ pc = "done"
  /\ http.status = 500
  /\ NamedKeys = <<"GOOGLE_API_KEY", "ANTHROPIC_API_KEY">>

(* C20: a streaming request whose mode is present and is not 'pro' is      *)
(* answered 400: no stream is opened, no provider call is made, nothing is *)
(* stored or cost-tracked.  A request without mode is served as 'pro'.     *)
C20_StreamModeCheck ==
  /\ (req.endpoint = "stream" /\ req.mode = "basic") =>
       /\ NoCallDispatched
       /\ ctrl = NoController
       /\ storeLog = <<>> /\ storage = <<>>
       /\ costs = <<>>
       /\ pc = "done" => http.status = 400
  /\ (req.endpoint = "stream" /\ req.mode = "absent" /\ pc # "received") =>
       /\ http.status = 200
       /\ ~NoCallDispatched
       /\ ctrl.queue[1].type = "started"

C20_Witness ==
  /\ req.endpoint = "stream"
  /\ req.mode = "basic"
  /\ pc = "done"
  /\ http.status = 400

C20_WitnessNoMode ==
  /\ req.mode = "absent"
  /\ StreamCompleted

(* C21: GET with an empty or missing id is answered 400 'Result ID is      *)
(* required' and the store is not consulted; GET with a non-empty id that  *)
(* was never issued, or whose TTL has elapsed, is answered 404 'Result not *)
(* found or expired'; 400 is given only for an empty id and 404 never.     *)
C21_GetStatusMapping ==
  lastRet.op = "get" =>
    /\ lastRet.id = EmptyId =>
         /\ lastRet.status = 400
         /\ lastRet.error = <<"Result", "ID", "is", "required">>
         /\ ~lastRet.consulted
    /\ (lastRet.id # EmptyId /\ (~lastRet.known \/ lastRet.elapsed)) =>
         /\ lastRet.status = 404
         /\ lastRet.error = <<"Result", "not", "found", "or", "expired">>
    /\ lastRet.status = 400 => lastRet.id = EmptyId

C21_Witness ==
  /\ lastRet.op = "get"
  /\ lastRet.known /\ lastRet.elapsed
  /\ lastRet.status = 404
  /\ Len(storeLog) = 2

C21_WitnessEmpty ==
  /\ lastRet.op = "get"
  /\ lastRet.id = EmptyId
  /\ lastRet.status = 400
  /\ storage # <<>>

\* The hasErrors flag of the metadata the client receives.
DeliveredHasErrors ==
  IF req.endpoint = "sync" THEN http.metadata.hasErrors
  ELSE ctrl.queue[Len(ctrl.queue)].metadata.hasErrors

(* C22: the hasErrors flag of the response metadata is true exactly when   *)
(* at least one provider call failed, whatever the successful providers    *)
(* answered.                                                               *)
C22_HasErrorsExact ==
  (HasDelivered /\ req.prompt = "text") => (DeliveredHasErrors <=> Rejected # {})

\* The request entered the pipeline: its provider calls were dispatched.
Dispatched == ~NoCallDispatched

\* The Errored terminal state: the stream's 'error' event, or the 500
\* 'Failed to synthesize responses' of the non-streaming endpoint.
Errored ==
  \/ /\ req.endpoint = "stream"
     /\ Len(ctrl.queue) > 0
     /\ ctrl.queue[Len(ctrl.queue)].type = "error"
  \/ /\ req.endpoint = "sync"
     /\ http.status = 500
     /\ http.error = <<"Failed", "to", "synthesize", "responses">>

InputWordSets == {WordSet(synthIn[i].content) : i \in 1..Len(synthIn)}

C24_WitnessEmptyUnion ==
  /\ pc = "jaccard"
  /\ Len(synthIn) = 2
  /\ synthIn[1].content = ShortText
  /\ UNION InputWordSets = {}
  /\ RatEq(alignment.surface, Zero)

\* Every text of the list is the same text.
IdenticalTexts == \A i \in 1..Len(synthIn) : synthIn[i].content = synthIn[1].content

\* Two texts or more, no two of which share a word.
DisjointVocabularies ==
  /\ Len(synthIn) >= 2
  /\ \A i, j \in 1..Len(synthIn) :
       i # j => WordSet(synthIn[i].content) \cap WordSet(synthIn[j].content) = {}

SurfaceInUnitInterval ==
  /\ alignment.surface.den > 0
  /\ 0 <= alignment.surface.num
  /\ alignment.surface.num <= alignment.surface.den

(* C25: for every non-empty list of texts the surface score lies in [0,1], *)
(* a list of identical texts scores 1, and texts with disjoint             *)
(* vocabularies score 0.                                                   *)
C25_JaccardBounds ==
  pc = "jaccard" =>
    /\ SurfaceInUnitInterval
    /\ IdenticalTexts => RatEq(alignment.surface, One)
    /\ DisjointVocabularies => RatEq(alignment.surface, Zero)

(* C25 as the code has it: the score lies in [0,1]; identical texts score  *)
(* 1 when the text has a word longer than two characters and 0 when it has *)
(* none; texts with disjoint vocabularies score 0.                         *)
C25_JaccardBoundsWithWords ==
  pc = "jaccard" =>
    /\ SurfaceInUnitInterval
    /\ (IdenticalTexts /\ WordSet(synthIn[1].content) # {}) => RatEq(alignment.surface, One)
    /\ (IdenticalTexts /\ WordSet(synthIn[1].content) = {}) => RatEq(alignment.surface, Zero)
    /\ DisjointVocabularies => RatEq(alignment.surface, Zero)

\* Three copies of one text that has words.
C25_Witness ==
  /\ pc = "jaccard"
  /\ Len(synthIn) = 3
  /\ IdenticalTexts
  /\ WordSet(synthIn[1].content) # {}
  /\ RatEq(alignment.surface, One)

\* Two texts with words and none in common.
C25_WitnessDisjoint ==
  /\ pc = "jaccard"
  /\ DisjointVocabularies
  /\ \A i \in 1..Len(synthIn) : WordSet(synthIn[i].content) # {}
  /\ RatEq(alignment.surface, Zero)

\* Identical texts without a word longer than two characters score 0.
C25_WitnessNoWords ==
  /\ pc = "jaccard"
  /\ Len(synthIn) = 2
  /\ IdenticalTexts
  /\ synthIn[1].content = ShortText
  /\ RatEq(alignment.surface, Zero)

\* Ten times the combined score 0.7 * semantic + 0.3 * surface of the scored
\* pair, over the denominator CombinedDen.
CombinedTimesTen ==
  7 * alignment.semantic.num * alignment.surface.den
    + 3 * alignment.surface.num * alignment.semantic.den
CombinedDen == alignment.semantic.den * alignment.surface.den

(* C26: for every pair of scores in [0,1] x [0,1] the overall alignment is *)
(* 'high' when 0.7 * semantic + 0.3 * surface exceeds 0.7, 'moderate' when *)
(* it exceeds 0.4 without exceeding 0.7, and 'low' otherwise.              *)
C26_AlignmentLevel ==
  pc = "aligned" =>
    alignment.overallAlignment =
      IF CombinedTimesTen > 7 * CombinedDen THEN "high"
      ELSE IF CombinedTimesTen > 4 * CombinedDen THEN "moderate"
      ELSE "low"

\* The combined score is exactly 0.7: the band is 'moderate'.
C26_Witness ==
  /\ pc = "aligned"
  /\ RatEq(alignment.semantic, One)
  /\ RatEq(alignment.surface, Zero)
  /\ alignment.overallAlignment = "moderate"

\* The combined score is exactly 0.4: the band is 'low'.
C26_WitnessLow ==
  /\ pc = "aligned"
  /\ RatEq(alignment.semantic, Rat(4, 10))
  /\ RatEq(alignment.surface, Rat(4, 10))
  /\ alignment.overallAlignment = "low"

C26_WitnessHigh ==
  /\ pc = "aligned"
  /\ RatEq(alignment.semantic, Rat(9, 10))
  /\ RatEq(alignment.surface, Rat(1, 4))
  /\ alignment.overallAlignment = "high"

\* low < moderate < high
BandRank(level) == CASE level = "low" -> 0 [] level = "moderate" -> 1 [] level = "high" -> 2

(* C27: at a fixed surface score, a pair with the greater or equal         *)
(* semantic score never falls in a lower band than a pair with the smaller *)
(* one, in the order low < moderate < high.                                *)
C27_AlignmentMonotone ==
  pc = "aligned" =>
    \A lower \in ScoreGrid :
      ~RatLess(alignment.semantic, lower) =>
        BandRank(getAlignmentLevel(lower, alignment.surface))
          <= BandRank(alignment.overallAlignment)

\* At surface 1 the band rises from low through moderate to high.
C27_Witness ==
  /\ pc = "aligned"
  /\ RatEq(alignment.surface, One)
  /\ alignment.overallAlignment = "high"
  /\ \E lower \in ScoreGrid : getAlignmentLevel(lower, alignment.surface) = "low"
  /\ \E lower \in ScoreGrid : getAlignmentLevel(lower, alignment.surface) = "moderate"

\* The returned analysis: semantic > 0.8, and semantic > 0.6 with surface > 0.2
StrongAgreement == 10 * analysis.alignment.semantic.num > 8 * analysis.alignment.semantic.den
TerminologyConsensus ==
  /\ 10 * analysis.alignment.semantic.num > 6 * analysis.alignment.semantic.den
  /\ 10 * analysis.alignment.surface.num > 2 * analysis.alignment.surface.den

\* The contents of the aligned points of the returned analysis, in order
PointContents == [i \in 1..Len(analysis.alignedPoints) |-> analysis.alignedPoints[i].content]

(* C28: in every analysis returned (scoring path, single response, error   *)
(* fallback) alignedPoints is non-empty only when semantic > 0.8 or        *)
(* (semantic > 0.6 and surface > 0.2); on the scoring path the             *)
(* strong-agreement point is present exactly when semantic > 0.8 and the   *)
(* terminology point exactly when semantic > 0.6 and surface > 0.2, in     *)
(* that order.                                                             *)
C28_AlignedPoints ==
  pc = "synthesized" =>
    /\ analysis.alignedPoints # <<>> => (StrongAgreement \/ TerminologyConsensus)
    /\ analysis.alignment.alignedPoints = analysis.alignedPoints
    /\ Len(synthIn) >= 2 =>
         PointContents =
           (IF StrongAgreement
            THEN <<"Models show strong semantic agreement on core concepts">> ELSE <<>>)
           \o
           (IF TerminologyConsensus
            THEN <<"Models demonstrate consensus on key terminology and approach">> ELSE <<>>)

\* Scoring path, semantic 0.8 and surface 1: the terminology point alone.
C28_Witness ==
  /\ pc = "synthesized"
  /\ Len(synthIn) = 2
  /\ RatEq(analysis.alignment.semantic, Rat(8, 10))
  /\ PointContents = <<"Models demonstrate consensus on key terminology and approach">>

\* Scoring path, both points.
C28_WitnessBoth ==
  /\ pc = "synthesized"
  /\ Len(synthIn) = 3
  /\ Len(analysis.alignedPoints) = 2

\* Scoring path, semantic above 0.8 and surface 0: the strong point alone.
C28_WitnessStrongOnly ==
  /\ pc = "synthesized"
  /\ Len(synthIn) = 2
  /\ RatEq(analysis.alignment.surface, Zero)
  /\ PointContents = <<"Models show strong semantic agreement on core concepts">>

\* Single response: one point, semantic 1.
C28_WitnessSingle ==
  /\ pc = "synthesized"
  /\ Len(synthIn) = 1
  /\ PointContents = <<"Single model response">>

\* Error fallback: no point, semantic 0.
C28_WitnessFallback ==
  /\ pc = "synthesized"
  /\ Len(synthIn) = 0
  /\ analysis.alignedPoints = <<>>
  /\ RatEq(analysis.alignment.semantic, Zero)

\* The topics of the sections findDivergences returned, in order
DivergenceTopics ==
  [i \in 1..Len(analysis.divergentSections) |-> analysis.divergentSections[i].topic]

TopicOrder == <<"Response Detail Level", "Communication Style", "Conceptual Focus">>

\* The place of a topic in TopicOrder, 0 for any other topic
TopicRank(topic) ==
  IF \E k \in 1..Len(TopicOrder) : TopicOrder[k] = topic
  THEN CHOOSE k \in 1..Len(TopicOrder) : TopicOrder[k] = topic
  ELSE 0

\* The lengths of the given texts, their sum, greatest and least
InputLengths == {ContentLength(synthIn[i].content) : i \in 1..Len(synthIn)}
InputLengthSum == SumSeq([i \in 1..Len(synthIn) |-> ContentLength(synthIn[i].content)])
LongestInput == CHOOSE n \in InputLengths : \A k \in InputLengths : k <= n
ShortestInput == CHOOSE n \in InputLengths : \A k \in InputLengths : n <= k

(* C29: the topics findDivergences returns form a subsequence of Response  *)
(* Detail Level, Communication Style, Conceptual Focus (each at most once, *)
(* in this order), and Response Detail Level is present exactly when the   *)
(* longest text exceeds 1.3 times the mean length or the shortest is below *)
(* 0.7 times the mean length.                                              *)
C29_DivergenceOrder ==
  pc = "divergences" =>
    /\ \A i \in 1..Len(DivergenceTopics) : TopicRank(DivergenceTopics[i]) > 0
    /\ \A i, j \in 1..Len(DivergenceTopics) :
         i < j => TopicRank(DivergenceTopics[i]) < TopicRank(DivergenceTopics[j])
    /\ (\E i \in 1..Len(DivergenceTopics) : DivergenceTopics[i] = "Response Detail Level")
         <=> \/ 10 * Len(synthIn) * LongestInput > 13 * InputLengthSum
             \/ 10 * Len(synthIn) * ShortestInput < 7 * InputLengthSum

\* All three sections are returned.
C29_Witness ==
  /\ pc = "divergences"
  /\ DivergenceTopics = TopicOrder

\* The first and the third fire, the second does not.
C29_WitnessSkipsStyle ==
  /\ pc = "divergences"
  /\ DivergenceTopics = <<"Response Detail Level", "Conceptual Focus">>

\* Three texts of which only the shortest is far from the mean length.
C29_WitnessShortest ==
  /\ pc = "divergences"
  /\ Len(synthIn) = 3
  /\ 10 * Len(synthIn) * LongestInput <= 13 * InputLengthSum
  /\ 10 * Len(synthIn) * ShortestInput < 7 * InputLengthSum
  /\ DivergenceTopics[1] = "Response Detail Level"

\* The second and the third fire without the first.
C29_WitnessNoDetail ==
  /\ pc = "divergences"
  /\ DivergenceTopics = <<"Communication Style", "Conceptual Focus">>

\* A text without a sentence has formality NaN: no style section.
C29_WitnessEmptyText ==
  /\ pc = "divergences"
  /\ Len(synthIn) = 2
  /\ synthIn[1].content = EmptyText
  /\ synthIn[2].content = TechText
  /\ DivergenceTopics = <<"Response Detail Level", "Conceptual Focus">>

\* The places of the model events in the stream
ModelEventsAt == {i \in 1..Len(ctrl.queue) : ctrl.queue[i].type \in {"model_complete", "model_error"}}

\* round(k / 3 * 60) for k = 1, 2, 3
ExpectedModelProgress == <<20, 40, 60>>

(* C30: within every stream the progress of successive events never        *)
(* decreases; started carries 0, the k-th model event carries              *)
(* round(k / 3 * 60), embeddings_started 70, embeddings_progress 80,       *)
(* synthesis_started 85 and synthesis_complete 100.                        *)
C30_StreamProgress ==
  req.endpoint = "stream" =>
    /\ \A i \in 1..Len(ctrl.queue) : \A j \in 1..Len(ctrl.queue) :
         i < j => ctrl.queue[i].progress <= ctrl.queue[j].progress
    /\ Cardinality(ModelEventsAt) <= 3
    /\ \A i \in 1..Len(ctrl.queue) :
         LET ev == ctrl.queue[i]
         IN  /\ ev.type = "started" => ev.progress = 0
             /\ i \in ModelEventsAt =>
                  ev.progress =
                    ExpectedModelProgress[Cardinality({j \in ModelEventsAt : j <= i})]
             /\ ev.type = "embeddings_started" => ev.progress = 70
             /\ ev.type = "embeddings_progress" => ev.progress = 80
             /\ ev.type = "synthesis_started" => ev.progress = 85
             /\ ev.type = "synthesis_complete" => ev.progress = 100

\* A finished stream of eight events, a failed call among them.
C30_Witness ==
  /\ req.endpoint = "stream"
  /\ pc = "done"
  /\ EventTypes = <<"started", "model_complete", "model_error", "model_complete",
                    "embeddings_started", "embeddings_progress", "synthesis_started",
                    "synthesis_complete">>
  /\ [i \in 1..Len(ctrl.queue) |-> ctrl.queue[i].progress]
       = <<0, 20, 40, 60, 70, 80, 85, 100>>

\* The request has completed the pipeline: a 200 response of the
\* non-streaming endpoint, or a stream that ended in synthesis_complete.
PipelineCompleted ==
  \/ req.endpoint = "sync" /\ http.status = 200
  \/ req.endpoint = "stream" /\ StreamCompleted

(* C31: the step that completes a query appends exactly one entry with the *)
(* query's tier and its measured processing time; the step that rejects a  *)
(* request appends none; every other step leaves the log as it is, so no   *)
(* earlier entry is ever removed or modified.                              *)
C31_CostLog ==
  [][ IF pc # "done" /\ pc' = "done" /\ PipelineCompleted'
      THEN costs' = Append(costs, [tier |-> EffectiveMode(req),
                                   processingTime |-> now - startTime])
      ELSE costs' = costs ]_vars

\* A completed basic-tier query after an entry read from the file.
C31_Witness ==
  /\ pc = "done"
  /\ req.endpoint = "sync"
  /\ http.status = 200
  /\ Len(costs) = 2
  /\ costs[1] = [tier |-> "basic", processingTime |-> 5000]
  /\ costs[2].tier = "basic"
  /\ costs[2].processingTime = now - startTime

\* A completed stream on a fresh log.
C31_WitnessStream ==
  /\ pc = "done"
  /\ StreamCompleted
  /\ Len(costs) = 1
  /\ costs[1].tier = "pro"
  /\ costs[1].processingTime > 0

\* A rejected request leaves the loaded entry alone.
C31_WitnessRejected ==
  /\ pc = "done"
  /\ http.status \in {400, 500}
  /\ Len(costs) = 1
\* The page shows the error of the exhausted fetch loop.
RetrievalFailedShown ==
  /\ client.error # Null
  /\ client.error.message = "Failed to retrieve synthesis result after 3 attempts"

\* The attempts that ended with the result read by the page.
SuccessfulGets ==
  {i \in 1..Len(client.gets) : client.gets[i].received /\ client.gets[i].status = 200}

(* C32: after synthesis_complete the page fetches the result at most three *)
(* times, makes no attempt after a successful one, waits longer after each *)
(* failed attempt than after the one before, and shows 'Failed to retrieve *)
(* synthesis result after 3 attempts' only when three attempts have failed.*)
C32_ClientRetry ==
  /\ Len(client.gets) <= FetchAttempts
  /\ \A i \in SuccessfulGets : i = Len(client.gets)
  /\ \A i \in 1..Len(client.waits) : \A j \in 1..Len(client.waits) :
       i < j => client.waits[i] < client.waits[j]
  /\ RetrievalFailedShown =>
       /\ Len(client.gets) = FetchAttempts
       /\ SuccessfulGets = {}

\* The parts of C32 other than the growth of the delay.
C32_AttemptsAndReport ==
  /\ Len(client.gets) <= FetchAttempts
  /\ \A i \in SuccessfulGets : i = Len(client.gets)
  /\ Len(client.waits) <= FetchAttempts - 1
  /\ RetrievalFailedShown =>
       /\ Len(client.gets) = FetchAttempts
       /\ SuccessfulGets = {}
       /\ client.at = "returned"

\* Three attempts have failed, with the same one-second wait after the
\* first and after the second.
C32_WitnessEqualWaits ==
  /\ RetrievalFailedShown
  /\ client.waits = <<RetryDelayMs, RetryDelayMs>>

\* The attempts the GET handler processed before the TTL of the entry had
\* elapsed.
ProcessedInTime ==
  {i \in 1..Len(client.gets) : client.gets[i].processed /\ ~client.gets[i].elapsed}

\* The analysis stored for the page's request is in its conversation list.
AnalysisShown ==
  \E k \in 1..Len(client.conversations) :
    client.conversations[k].analysis = LatestStore(client.resultId).result

(* C38: when handleSubmit has returned and the server processed at least   *)
(* one of the page's fetches of the result before the entry's TTL elapsed, *)
(* the analysis is in the conversation list, also when the response to an  *)
(* earlier fetch was lost after the server had processed it.               *)
C38_HandoffDespiteLoss ==
  (client.at = "returned" /\ ProcessedInTime # {}) => AnalysisShown

\* The first fetch was answered 200 and its response lost; the two retries
\* were answered 404 and the page shows the error, not the analysis.
C38_WitnessLostResponse ==
  /\ client.at = "returned"
  /\ Len(client.gets) = FetchAttempts
  /\ client.gets[1].status = 200 /\ ~client.gets[1].received
  /\ client.gets[2].status = 404 /\ client.gets[3].status = 404
  /\ RetrievalFailedShown
  /\ client.conversations = <<>>

\* Without a lost response the handoff completes: the first answer that
\* arrives is the analysis.
C38_WitnessDelivered ==
  /\ client.at = "returned"
  /\ Len(client.gets) = 2
  /\ ~client.gets[1].processed
  /\ AnalysisShown

\* The 'error' events the page has read from the stream.
ErrorEventsRead == {i \in 1..client.pos : ctrl.queue[i].type = "error"}

(* C39: once the page has read an 'error' event and handleSubmit has       *)
(* returned, the streaming display is gone, the error shown is the event's *)
(* message and the prompt field holds the submitted prompt again; and no   *)
(* submission returns with neither a conversation entry nor an error.      *)
C39_StreamErrorShown ==
  client.at = "returned" =>
    /\ \A i \in ErrorEventsRead :
         /\ client.streamingResults = Null
         /\ client.error = [message |-> ctrl.queue[i].error]
         /\ client.prompt = client.currentPrompt
    /\ client.conversations # <<>> \/ client.error # Null

\* The page has read the 'error' event to the end of the stream and shows
\* nothing of it: no error, no entry, the progress display still up, the
\* prompt field empty.
C39_WitnessSilentEnd ==
  /\ client.at = "returned"
  /\ ErrorEventsRead # {}
  /\ client.error = Null
  /\ client.conversations = <<>>
  /\ client.streamingResults # Null
  /\ client.prompt = ""

\* Another failure of handleSubmit, the rejected POST, is shown and the
\* prompt restored.
C39_WitnessPostFailure ==
  /\ client.at = "returned"
  /\ client.error = [message |-> "Failed to fetch"]
  /\ client.prompt = client.currentPrompt
  /\ client.currentPrompt = "text"

\* The part of C39 that does not involve the 'error' event: a submission
\* whose stream held no such event returns with an entry or with an error.
C39_OtherRunsShown ==
  (client.at = "returned" /\ ErrorEventsRead = {}) =>
    client.conversations # <<>> \/ client.error # Null

\* A step of the sweep: the only step that moves nextSweep.
SweepStep == nextSweep' # nextSweep

(* C33: a run of cleanup() removes every entry older than its own TTL and  *)
(* leaves every other entry in place with its result, timestamp and ttl,   *)
(* and adds none.                                                          *)
C33_SweepFrame ==
  [][ SweepStep =>
        /\ DOMAIN storage' \subseteq DOMAIN storage
        /\ \A id \in DOMAIN storage :
             IF now - storage[id].timestamp > storage[id].ttl
             THEN id \notin DOMAIN storage'
             ELSE /\ id \in DOMAIN storage'
                  /\ storage'[id] = storage[id] ]_vars

\* A sweep has run over two entries stored with different TTLs: the one with
\* the short TTL is gone, the one with the default TTL is kept as stored.
C33_Witness ==
  /\ nextSweep > CleanupIntervalMs
  /\ lastRet = NoCall
  /\ \E i \in 1..Len(storeLog) : \E j \in 1..Len(storeLog) :
       /\ storeLog[i].ttl < storeLog[j].ttl
       /\ ~storeLog[i].removed
       /\ storeLog[i].id \notin DOMAIN storage
       /\ storeLog[j].id \in DOMAIN storage
       /\ storage[storeLog[j].id] =
            [result |-> storeLog[j].result, timestamp |-> storeLog[j].timestamp,
             ttl |-> storeLog[j].ttl]

\* The fields of a ConsensusAnalysis.
AnalysisFields ==
  {"unifiedResponse", "alignment", "alignedPoints", "divergentSections",
   "originalResponses"}

\* The call took the catch branch: its only throw is that of the empty list.
SynthesisThrew == Len(synthIn) = 0

(* C35: synthesizeWithErrorHandling returns an analysis for every list of  *)
(* responses and every answer of the two services; when it caught an       *)
(* exception (the empty list) the analysis has both scores 0, every level  *)
(* 'low', no aligned point, the single divergent section 'Synthesis Error' *)
(* and the input list as originalResponses.                                *)
C35_NeverRaises ==
  pc = "synthesized" =>
    /\ analysis # Null
    /\ DOMAIN analysis = AnalysisFields
    /\ analysis.originalResponses = synthIn
    /\ SynthesisThrew =>
         /\ RatEq(analysis.alignment.semantic, Zero)
         /\ RatEq(analysis.alignment.surface, Zero)
         /\ \A slot \in {"gemini", "chatgpt", "claude", "overallAlignment"} :
              analysis.alignment[slot] = "low"
         /\ analysis.alignedPoints = <<>>
         /\ analysis.alignment.alignedPoints = <<>>
         /\ Len(analysis.divergentSections) = 1
         /\ analysis.divergentSections[1].topic = "Synthesis Error"

\* The call on the empty list has returned the error analysis.
C35_Witness ==
  /\ pc = "synthesized"
  /\ SynthesisThrew
  /\ analysis.divergentSections[1].topic = "Synthesis Error"

\* Both services failed for three responses and the call still returned.
C35_WitnessServicesFail ==
  /\ pc = "synthesized"
  /\ Len(synthIn) = 3
  /\ EmbeddingFailed
  /\ GenFailed
  /\ analysis.originalResponses = synthIn

\* 1000 times the combined score of a slot whose multiplier is mult / 100,
\* over the common denominator of the two scores.
SlotCombined(mult) ==
  7 * mult * alignment.semantic.num * alignment.surface.den
    + 300 * alignment.surface.num * alignment.semantic.den

\* The band of a slot, from the two scores and the slot's multiplier alone.
SlotBand(mult) ==
  IF SlotCombined(mult) > 700 * CombinedDen THEN "high"
  ELSE IF SlotCombined(mult) > 400 * CombinedDen THEN "moderate"
  ELSE "low"

C37_WitnessGeminiLower ==
  /\ pc = "aligned"
  /\ alignment.gemini = "low"
  /\ alignment.claude = "moderate"
  /\ alignment.chatgpt = "moderate"

\* A negative semantic score, where the multipliers act in reverse: every
\* slot is 'low'.
C37_WitnessNegative ==
  /\ pc = "aligned"
  /\ RatLess(alignment.semantic, Zero)
  /\ RatEq(alignment.surface, One)
  /\ alignment.gemini = "low"
  /\ alignment.chatgpt = "low"

\* The same on the scoring path of synthesizeResponses, where the scores
\* come from the models' contents and the embedding vectors.
C37_ModelLevelsOnPath ==
  pc = "generating" =>
    /\ BandRank(alignment.gemini) <= BandRank(alignment.claude)
    /\ BandRank(alignment.claude) <= BandRank(alignment.chatgpt)
    /\ alignment.claude = alignment.overallAlignment
    /\ alignment.gemini = SlotBand(95)
    /\ alignment.claude = SlotBand(100)
    /\ alignment.chatgpt = SlotBand(105)

\* The outcome of the call to model m, as the handlers see it.
OutcomeResponse(m) ==
  IF m \in Fulfilled THEN calls[m].value ELSE PlaceholderOf(m)

\* The analysis determined by the outcomes of the three provider calls and
\* the answers of the two services, whichever endpoint was called.
AnalysisOfOutcomes ==
  LET all == [i \in 1..Len(Models) |-> OutcomeResponse(Models[i])]
      valid == SelectSeq(all, LAMBDA r : ~StartsWithError(r.content))
      input == IF Len(valid) > 0 THEN valid ELSE all
  IN  IF Len(input) = 1
      THEN SingleResponseAnalysis(input)
      ELSE SynthesizedAnalysis(input, calculateAlignment(input, probe.embeddings),
                               createGPT4Synthesis(input, probe.generation))

(* C36: the analysis stored by the streaming pipeline under its resultId   *)
(* and the analysis in the body of the non-streaming endpoint are the same *)
(* function of the three provider outcomes and of the answers of the       *)
(* embedding and text-generation services.                                 *)
C36_SameAnalysis ==
  HasDelivered => Delivered = AnalysisOfOutcomes

\* A stream has stored the analysis of two answers and one failure, the
\* embedding request having failed.
C36_Witness ==
  /\ StreamCompleted
  /\ Cardinality(Fulfilled) = 2
  /\ probe.embeddings # <<>>
  /\ probe.embeddings[1] = EmbedFailed
  /\ Delivered = AnalysisOfOutcomes

\* The non-streaming endpoint has returned the analysis of the same kind of
\* run.
C36_WitnessSync ==
  /\ req.endpoint = "sync"
  /\ http.status = 200
  /\ Cardinality(Fulfilled) = 2
  /\ probe.embeddings # <<>>
  /\ probe.embeddings[1] = EmbedFailed
  /\ Delivered = AnalysisOfOutcomes

\* All three calls failed on either endpoint: the placeholders are analysed.
C36_WitnessAllFailed ==
  /\ HasDelivered
  /\ Rejected = ModelSet
  /\ Len(Delivered.originalResponses) = 3

\* The stream has emitted its terminal event and is closed.
StreamClosed == TerminalAt # {} /\ ctrl.closeCalls = 1

\* embeddings_started is in the stream.
EmbeddingsStarted ==
  \E i \in 1..Len(ctrl.queue) : ctrl.queue[i].type = "embeddings_started"

(* C34: when every provider call settles and the embedding and generation  *)
(* requests answer or fail, every accepted streaming request leads to its  *)
(* terminal event and the closing of the stream; and at all times          *)
(* embeddings_started is in the stream only if all three provider calls    *)
(* have settled, so that a call that never settles keeps it out for ever.  *)
C34_StreamLiveness ==
  /\ Accepted ~> StreamClosed
  /\ [](EmbeddingsStarted => Fulfilled \cup Rejected = ModelSet)

\* A stream is closed after its terminal event, one provider having failed.
C34_Witness ==
  /\ Accepted
  /\ StreamClosed
  /\ Cardinality(Rejected) = 1

\* Two calls have settled and the third has not: the loop has reported at
\* most the calls before it and embeddings_started is not in the stream.
C34_WitnessBlocked ==
  /\ Accepted
  /\ pc = "loop"
  /\ Fulfilled \cup Rejected = ModelSet \ {"gemini"}
  /\ idx = 0
  /\ ~EmbeddingsStarted

====
